---- MODULE Spec2Model ----
(***************************************************************************)
(* A model of the NotionTypedClient facade that ClientGenerator emits:     *)
(* the status-group filter expansion, the create / update / delete calls   *)
(* and the three pagination modes built on queryDatabase.                  *)
(***************************************************************************)
EXTENDS Integers, Sequences, FiniteSets, TLC

VARIABLES
    \* ---- filter translation (convertStatusGroupFilter) ----
    fpc,            \* "ready" before the call, "done" after it
    propConfig,     \* the ResolvedPropertyConfig of the status property
    groupFilter,    \* the status_group condition object of the filter leaf
    fResult,        \* what convertStatusGroupFilter returned or threw
    \* ---- createPage / updatePage / deletePage ----
    cpc,            \* "idle", "awaitCreate", "awaitUpdate", "awaitArchive",
                    \* "awaitQuery", "awaitRetrieve", "done"
    call,           \* the facade call in progress: method and arguments
    transportLog,   \* the transport requests issued during the call, in order
    outcome,        \* what the facade call returned or threw
    rejection,      \* the error the transport rejected a request with, if any
    \* ---- queryDatabase / queryDatabaseAll / queryDatabaseIterator ----
    server,         \* the transport's answer to databases.query, by start cursor
    qArgs,          \* the args of the pagination call (page_size)
    ppc,            \* "idle"; "allAwait", "allDone"; "itStart", "itAwait",
                    \* "itYield", "itDone"
    requests,       \* the databases.query requests issued, in order
    responses,      \* the decoded responses queryDatabase returned, in order
    cursor,         \* let cursor
    hasMore,        \* let hasMore
    allResults,     \* queryDatabaseAll: allResults
    page,           \* queryDatabaseIterator: response.results under iteration
    idx,            \* queryDatabaseIterator: how many items of page were yielded
    consumed,       \* the items the consumer of the iterator received
    requested,      \* how many times the consumer called next()
    stopped,        \* the consumer left the loop early (return())
    pOutcome,       \* what queryDatabaseAll returned
    \* ---- the translators and codecs applied on their own ----
    fnpc,           \* "ready" before the application, "done" after it
    fnArgs,         \* the function applied and its arguments
    fnResult        \* what it returned or threw

filterVars == <<fpc, propConfig, groupFilter, fResult>>

crudVars == <<cpc, call, transportLog, outcome, rejection>>

pageVars == <<server, qArgs, ppc, requests, responses, cursor, hasMore, allResults,
              page, idx, consumed, requested, stopped, pOutcome>>

fnVars == <<fnpc, fnArgs, fnResult>>

vars == <<fpc, propConfig, groupFilter, fResult, cpc, call, transportLog, outcome,
          rejection,
          server, qArgs, ppc, requests, responses, cursor, hasMore, allResults,
          page, idx, consumed, requested, stopped, pOutcome, fnpc, fnArgs, fnResult>>

(***************************************************************************)
(* Bounds of the model.                                                    *)
(***************************************************************************)
MaxOptions == 3         \* option ids a status property's catalog may refer to
MaxGroupList == 2       \* longest group-name list of in_any / not_in_any
MaxPageLen == 2         \* most objects in one databases.query response
MaxFetches == 4         \* most databases.query calls of one pagination call
MaxDepth == 2           \* deepest nesting of compound filter nodes
MaxSorts == 2           \* longest sorts array
MaxConfigs == 2         \* most property configs of a database under resolution

(***************************************************************************)
(* Generic helpers for JavaScript arrays.                                  *)
(***************************************************************************)
Range(s) == {s[i] : i \in 1..Len(s)}

\* new Set(...) filled by add() in array order, then Array.from(): the first
\* occurrence of every element, in insertion order.
RECURSIVE Dedupe(_)
Dedupe(s) ==
    IF s = <<>> THEN <<>>
    ELSE LET init == Dedupe(SubSeq(s, 1, Len(s) - 1))
             last == s[Len(s)]
         IN IF last \in Range(init) THEN init ELSE Append(init, last)

\* Array.prototype.find as an index: the first i whose s[i][key] is v, 0 when
\* there is none.
FindIndex(s, key, v) ==
    IF \E i \in 1..Len(s) : s[i][key] = v
    THEN CHOOSE i \in 1..Len(s) :
            s[i][key] = v /\ \A j \in 1..(i - 1) : s[j][key] # v
    ELSE 0

(***************************************************************************)
(* The resolved schema of the status property under translation.           *)
(***************************************************************************)
OptionIdPool == <<"opt-1", "opt-2", "opt-3", "opt-4", "opt-5">>
OptionNamePool == <<"o1", "o2", "o3", "o4", "o5">>
INVALID == "__INVALID__"
GroupNames == <<"g1", "g2">>
UnknownGroup == "gx"
StatusNotionName == "Project Status"

\* PropertyOption[]: the first n pool options; option `at` (if any) carries the
\* reserved name.
OptionsOf(n, at) ==
    [i \in 1..n |-> [id |-> OptionIdPool[i],
                     name |-> IF i = at THEN INVALID ELSE OptionNamePool[i]]]

\* The ids of pool positions 1..MaxOptions that member maps to group g, ascending
\* or descending.
RECURSIVE IdsOfGroup(_, _, _)
IdsOfGroup(member, g, i) ==
    IF i > MaxOptions THEN <<>>
    ELSE (IF member[i] = g THEN <<OptionIdPool[i]>> ELSE <<>>)
         \o IdsOfGroup(member, g, i + 1)

Reverse(s) == [i \in 1..Len(s) |-> s[Len(s) + 1 - i]]

\* StatusGroup[]: one group per group name; a group's option_ids may name ids
\* the option catalog does not hold.
GroupsOf(member, rev) ==
    [g \in 1..Len(GroupNames) |->
        [name |-> GroupNames[g],
         option_ids |-> IF rev THEN Reverse(IdsOfGroup(member, g, 1))
                        ELSE IdsOfGroup(member, g, 1)]]

PropConfigs ==
    {[name |-> "projectStatus", notionName |-> StatusNotionName, type |-> "status",
      options |-> OptionsOf(n, at), groups |-> GroupsOf(member, rev)] :
        n \in 0..MaxOptions, at \in 0..1,
        member \in [1..MaxOptions -> 0..Len(GroupNames)], rev \in BOOLEAN}

(***************************************************************************)
(* The status_group condition objects.                                     *)
(***************************************************************************)
GroupRefs == Range(GroupNames) \cup {UnknownGroup}

RECURSIVE SeqsUpTo(_, _)
SeqsUpTo(S, n) ==
    IF n = 0 THEN {<<>>}
    ELSE SeqsUpTo(S, n - 1)
         \cup {Append(s, x) : s \in {t \in SeqsUpTo(S, n - 1) : Len(t) = n - 1}, x \in S}

EmptyObject == [k \in {} |-> TRUE]

GroupFilters ==
    {[equals |-> g] : g \in GroupRefs}
    \cup {[does_not_equal |-> g] : g \in GroupRefs}
    \cup {[in_any |-> gs] : gs \in SeqsUpTo(GroupRefs, MaxGroupList)}
    \cup {[not_in_any |-> gs] : gs \in SeqsUpTo(GroupRefs, MaxGroupList)}
    \cup {[is_empty |-> TRUE], [is_not_empty |-> TRUE], [contains |-> "g1"]}
    \cup {EmptyObject}

(***************************************************************************)
(* convertStatusGroupFilter.                                               *)
(***************************************************************************)
Return(v) == [kind |-> "return", value |-> v]
Throw(e) == [kind |-> "throw", error |-> e]

\* { property: notionPropertyName, status: cond }
StatusLeaf(notionPropertyName, cond) ==
    [property |-> notionPropertyName, status |-> cond]

\* The option name for an option id: <<name>>, or <<>> when options holds no
\* such id (option?.name is undefined).
OptionNameOf(config, optionId) ==
    LET i == FindIndex(config.options, "id", optionId)
    IN IF i = 0 THEN <<>> ELSE <<config.options[i].name>>

\* option_ids.map(id => option?.name).filter(name => name !== undefined)
RECURSIVE DefinedNames(_, _)
DefinedNames(config, optionIds) ==
    IF optionIds = <<>> THEN <<>>
    ELSE OptionNameOf(config, Head(optionIds)) \o DefinedNames(config, Tail(optionIds))

getOptionsForGroup(config, groupName) ==
    LET gi == FindIndex(config.groups, "name", groupName)
    IN IF gi = 0 THEN <<>>
       ELSE DefinedNames(config, config.groups[gi].option_ids)

\* group.option_ids of the named group, as a set ({} when no such group).
GroupIdSet(config, groupName) ==
    LET gi == FindIndex(config.groups, "name", groupName)
    IN IF gi = 0 THEN {} ELSE Range(config.groups[gi].option_ids)

\* options.filter(opt => !excludedOptionIds.has(opt.id)).map(opt => opt.name)
RECURSIVE NamesNotExcluded(_, _)
NamesNotExcluded(options, excludedOptionIds) ==
    IF options = <<>> THEN <<>>
    ELSE (IF Head(options).id \in excludedOptionIds THEN <<>>
          ELSE <<Head(options).name>>)
         \o NamesNotExcluded(Tail(options), excludedOptionIds)

\* Mutant: only the first listed group is excluded.
getOptionsNotInGroups_FirstOnly(config, groupNames) ==
    LET excludedOptionIds ==
            IF groupNames = <<>> THEN {} ELSE GroupIdSet(config, groupNames[1])
    IN NamesNotExcluded(config.options, excludedOptionIds)

getOptionsNotInGroups(config, groupNames) ==
    LET excludedOptionIds ==
            UNION {GroupIdSet(config, groupNames[k]) : k \in 1..Len(groupNames)}
    IN NamesNotExcluded(config.options, excludedOptionIds)

\* options.map(optionName => ({ property, status: { equals: optionName } }))
EqualsBranches(notionPropertyName, options) ==
    [i \in 1..Len(options) |->
        StatusLeaf(notionPropertyName, [equals |-> options[i]])]

DoesNotEqualBranches(notionPropertyName, options) ==
    [i \in 1..Len(options) |->
        StatusLeaf(notionPropertyName, [does_not_equal |-> options[i]])]

\* Mutant: the empty case copies the one of does_not_equal.
caseEquals_ZeroIsNotEmpty(config, value) ==
    LET options == getOptionsForGroup(config, value)
    IN IF Len(options) = 0
       THEN StatusLeaf(config.notionName, [is_not_empty |-> TRUE])
       ELSE IF Len(options) = 1
       THEN StatusLeaf(config.notionName, [equals |-> options[1]])
       ELSE [or |-> EqualsBranches(config.notionName, options)]

caseEquals(config, value) ==
    LET options == getOptionsForGroup(config, value)
    IN IF Len(options) = 0
       THEN StatusLeaf(config.notionName, [equals |-> INVALID])
       ELSE IF Len(options) = 1
       THEN StatusLeaf(config.notionName, [equals |-> options[1]])
       ELSE [or |-> EqualsBranches(config.notionName, options)]

\* Mutant: the branches are joined by OR.
caseDoesNotEqual_Or(config, value) ==
    LET options == getOptionsForGroup(config, value)
    IN IF Len(options) = 0
       THEN StatusLeaf(config.notionName, [is_not_empty |-> TRUE])
       ELSE IF Len(options) = 1
       THEN StatusLeaf(config.notionName, [does_not_equal |-> options[1]])
       ELSE [or |-> DoesNotEqualBranches(config.notionName, options)]

caseDoesNotEqual(config, value) ==
    LET options == getOptionsForGroup(config, value)
    IN IF Len(options) = 0
       THEN StatusLeaf(config.notionName, [is_not_empty |-> TRUE])
       ELSE IF Len(options) = 1
       THEN StatusLeaf(config.notionName, [does_not_equal |-> options[1]])
       ELSE [and |-> DoesNotEqualBranches(config.notionName, options)]

RECURSIVE ConcatGroupOptions(_, _)
ConcatGroupOptions(config, groupNames) ==
    IF groupNames = <<>> THEN <<>>
    ELSE getOptionsForGroup(config, Head(groupNames))
         \o ConcatGroupOptions(config, Tail(groupNames))

\* Mutant: the options are gathered in an array, not in a Set.
caseInAny_NoSet(config, value) ==
    LET optionsArray == ConcatGroupOptions(config, value)
    IN IF Len(optionsArray) = 0
       THEN StatusLeaf(config.notionName, [equals |-> INVALID])
       ELSE IF Len(optionsArray) = 1
       THEN StatusLeaf(config.notionName, [equals |-> optionsArray[1]])
       ELSE [or |-> EqualsBranches(config.notionName, optionsArray)]

caseInAny(config, value) ==
    LET optionsArray == Dedupe(ConcatGroupOptions(config, value))
    IN IF Len(optionsArray) = 0
       THEN StatusLeaf(config.notionName, [equals |-> INVALID])
       ELSE IF Len(optionsArray) = 1
       THEN StatusLeaf(config.notionName, [equals |-> optionsArray[1]])
       ELSE [or |-> EqualsBranches(config.notionName, optionsArray)]

\* Mutant: the remaining options are joined by OR however many they are.
caseNotInAny_AlwaysOr(config, value) ==
    [or |-> EqualsBranches(config.notionName, getOptionsNotInGroups(config, value))]

\* Mutant: the remaining options are joined by AND.
caseNotInAny_And(config, value) ==
    LET remainingOptions == getOptionsNotInGroups(config, value)
    IN IF Len(remainingOptions) = 0
       THEN StatusLeaf(config.notionName, [is_empty |-> TRUE])
       ELSE IF Len(remainingOptions) = 1
       THEN StatusLeaf(config.notionName, [equals |-> remainingOptions[1]])
       ELSE [and |-> EqualsBranches(config.notionName, remainingOptions)]

caseNotInAny(config, value) ==
    LET remainingOptions == getOptionsNotInGroups(config, value)
    IN IF Len(remainingOptions) = 0
       THEN StatusLeaf(config.notionName, [is_empty |-> TRUE])
       ELSE IF Len(remainingOptions) = 1
       THEN StatusLeaf(config.notionName, [equals |-> remainingOptions[1]])
       ELSE [or |-> EqualsBranches(config.notionName, remainingOptions)]

\* The operation of a condition object: the key of Object.entries(...)[0].
\* The model's condition objects hold at most one key.
OperationOf(filter) == CHOOSE k \in DOMAIN filter : TRUE

\* Mutant: the condition is kept and only the property is renamed.
convertStatusGroupFilter_Keep(filter, config) ==
    Return([property |-> config.notionName, status_group |-> filter])

\* Mutant: a group name the schema does not hold is an error.
convertStatusGroupFilter_Strict(filter, config) ==
    IF DOMAIN filter = {} THEN Throw("TypeError")
    ELSE IF /\ OperationOf(filter) \in {"equals", "does_not_equal"}
            /\ FindIndex(config.groups, "name", filter[OperationOf(filter)]) = 0
    THEN Throw("Error")
    ELSE Return(StatusLeaf(config.notionName, filter))

convertStatusGroupFilter(filter, config) ==
    IF DOMAIN filter = {}
    THEN Throw("TypeError")      \* destructuring Object.entries({})[0]
    ELSE LET operation == OperationOf(filter)
             value == filter[operation]
         IN CASE operation = "equals" -> Return(caseEquals(config, value))
              [] operation = "does_not_equal" -> Return(caseDoesNotEqual(config, value))
              [] operation = "in_any" -> Return(caseInAny(config, value))
              [] operation = "not_in_any" -> Return(caseNotInAny(config, value))
              [] operation = "is_empty" ->
                    Return(StatusLeaf(config.notionName, [is_empty |-> TRUE]))
              [] operation = "is_not_empty" ->
                    Return(StatusLeaf(config.notionName, [is_not_empty |-> TRUE]))
              [] OTHER -> Return(StatusLeaf(config.notionName, filter))

(***************************************************************************)
(* The filter translation as a state machine: one call per behaviour.      *)
(***************************************************************************)
NoResult == [kind |-> "none"]

NoCall == [method |-> "none"]

\* The facade at rest: no create / update / delete call was made.
CrudAtRest ==
    /\ cpc = "idle"
    /\ call = NoCall
    /\ transportLog = <<>>
    /\ outcome = NoResult
    /\ rejection = NoResult

\* The filter translator at rest, for the behaviours of the other calls.
FilterAtRest ==
    /\ fpc = "unused"
    /\ propConfig = CHOOSE c \in PropConfigs : Len(c.options) = 0
    /\ groupFilter = EmptyObject
    /\ fResult = NoResult

\* No translator or codec is applied on its own.
FnAtRest ==
    /\ fnpc = "unused"
    /\ fnArgs = [fn |-> "none"]
    /\ fnResult = NoResult

UndefinedCursor == "undefined"
NullCursor == "null"
Cursors == {"cursor-1", "cursor-2"}

\* No pagination call was made.
LocalsAtRest ==
    /\ ppc = "idle"
    /\ requests = <<>>
    /\ responses = <<>>
    /\ cursor = UndefinedCursor
    /\ hasMore = TRUE
    /\ allResults = <<>>
    /\ page = <<>>
    /\ idx = 0
    /\ consumed = <<>>
    /\ requested = 0
    /\ stopped = FALSE
    /\ pOutcome = NoResult

PageAtRest ==
    /\ server = <<>>
    /\ qArgs = [page_size |-> <<>>]
    /\ LocalsAtRest

InitFilter ==
    /\ fpc = "ready"
    /\ propConfig \in PropConfigs
    /\ groupFilter \in GroupFilters
    /\ fResult = NoResult
    /\ CrudAtRest
    /\ PageAtRest
    /\ FnAtRest

ConvertStatusGroupFilter ==
    /\ fpc = "ready"
    /\ fResult' = convertStatusGroupFilter(groupFilter, propConfig)
    /\ fpc' = "done"
    /\ UNCHANGED <<propConfig, groupFilter>>
    /\ UNCHANGED crudVars
    /\ UNCHANGED pageVars
    /\ UNCHANGED fnVars

NextFilter == ConvertStatusGroupFilter

SpecFilter == InitFilter /\ [][NextFilter]_vars

(***************************************************************************)
(* What the claims about status-group expansion are stated over: the       *)
(* option-name sets of the resolved schema and the shapes of wire filters. *)
(***************************************************************************)
AllOptionNames(config) == {o.name : o \in Range(config.options)}

\* G(name): the names of the catalog's options whose id the named group lists.
GroupOptionNames(config, groupName) ==
    {o.name : o \in {p \in Range(config.options) :
        \E g \in Range(config.groups) :
            g.name = groupName /\ p.id \in Range(g.option_ids)}}

GroupListOptionNames(config, groupNames) ==
    UNION {GroupOptionNames(config, groupNames[k]) : k \in 1..Len(groupNames)}

\* ALL minus the union of the G(gi), taken over option ids as the catalog is.
RemainingOptionNames(config, groupNames) ==
    {o.name : o \in {p \in Range(config.options) :
        \A g \in Range(config.groups) :
            g.name \in Range(groupNames) => p.id \notin Range(g.option_ids)}}

IsSentinel(f) == f = [property |-> StatusNotionName, status |-> [equals |-> INVALID]]

IsDirect(f, cond) == f = [property |-> StatusNotionName, status |-> cond]

\* f is { or: [...] } with exactly one equals branch per name of S.
IsOrOfEquals(f, S) ==
    /\ DOMAIN f = {"or"}
    /\ Len(f.or) = Cardinality(S)
    /\ Range(f.or) = {[property |-> StatusNotionName, status |-> [equals |-> o]] : o \in S}

\* f is { and: [...] } with exactly one does_not_equal branch per name of S.
IsAndOfDoesNotEqual(f, S) ==
    /\ DOMAIN f = {"and"}
    /\ Len(f.and) = Cardinality(S)
    /\ Range(f.and) =
          {[property |-> StatusNotionName, status |-> [does_not_equal |-> o]] : o \in S}

FilterDone(op) == fpc = "done" /\ DOMAIN groupFilter = {op}

\* The 0 / 1 / many simplification onto equals conditions, with `zero` the
\* condition of the empty case.
EqualsArity(f, S, zero) ==
    /\ Cardinality(S) = 0 => IsDirect(f, zero)
    /\ Cardinality(S) = 1 => \E o \in S : IsDirect(f, [equals |-> o])
    /\ Cardinality(S) > 1 => IsOrOfEquals(f, S)

\* C7: status_group equals(g) with S = G(g), and in_any(g1..gn) with S the
\* union of the G(gi), return the sentinel (equals on the reserved value) when
\* S is empty, one direct equals when S has one option, and an OR of exactly one
\* equals per option of S when S has several.
C7_EqualsInAnyArity ==
    /\ FilterDone("equals") =>
          /\ fResult.kind = "return"
          /\ EqualsArity(fResult.value,
                         GroupOptionNames(propConfig, groupFilter.equals),
                         [equals |-> INVALID])
    /\ FilterDone("in_any") =>
          /\ fResult.kind = "return"
          /\ EqualsArity(fResult.value,
                         GroupListOptionNames(propConfig, groupFilter.in_any),
                         [equals |-> INVALID])

\* in_any([g1, g2]) with G(g1) = {o1, o2}, G(g2) = {o3} gave OR(o1, o2, o3).
C7_Witness ==
    /\ FilterDone("in_any")
    /\ groupFilter.in_any = <<"g1", "g2">>
    /\ GroupOptionNames(propConfig, "g1") = {"o1", "o2"}
    /\ GroupOptionNames(propConfig, "g2") = {"o3"}
    /\ fResult = Return([or |-> <<StatusLeaf(StatusNotionName, [equals |-> "o1"]),
                                  StatusLeaf(StatusNotionName, [equals |-> "o2"]),
                                  StatusLeaf(StatusNotionName, [equals |-> "o3"])>>])

\* C8: status_group not_in_any(g1..gn) with S = ALL minus the union of the
\* G(gi) returns is_empty when S is empty, one direct equals when S has one
\* option, and an OR of exactly one equals per option of S when S has several.
C8_NotInAnyArity ==
    FilterDone("not_in_any") =>
        /\ fResult.kind = "return"
        /\ EqualsArity(fResult.value,
                       RemainingOptionNames(propConfig, groupFilter.not_in_any),
                       [is_empty |-> TRUE])

\* not_in_any([g1]) with ALL = {o1, o2, o3} and G(g1) = {o3} gave OR(o1, o2).
C8_Witness ==
    /\ FilterDone("not_in_any")
    /\ groupFilter.not_in_any = <<"g1">>
    /\ AllOptionNames(propConfig) = {"o1", "o2", "o3"}
    /\ GroupOptionNames(propConfig, "g1") = {"o3"}
    /\ fResult = Return([or |-> <<StatusLeaf(StatusNotionName, [equals |-> "o1"]),
                                  StatusLeaf(StatusNotionName, [equals |-> "o2"])>>])

\* C9: status_group does_not_equal(g) with S = G(g) returns is_not_empty when
\* S is empty, one direct does_not_equal when S has one option, and an AND of
\* exactly one does_not_equal per option of S when S has several.
C9_DoesNotEqualArity ==
    FilterDone("does_not_equal") =>
        LET S == GroupOptionNames(propConfig, groupFilter.does_not_equal)
            f == fResult.value
        IN /\ fResult.kind = "return"
           /\ Cardinality(S) = 0 => IsDirect(f, [is_not_empty |-> TRUE])
           /\ Cardinality(S) = 1 => \E o \in S : IsDirect(f, [does_not_equal |-> o])
           /\ Cardinality(S) > 1 => IsAndOfDoesNotEqual(f, S)

\* does_not_equal(g1) with G(g1) = {o1, o2} gave AND(not o1, not o2).
C9_Witness ==
    /\ FilterDone("does_not_equal")
    /\ groupFilter.does_not_equal = "g1"
    /\ GroupOptionNames(propConfig, "g1") = {"o1", "o2"}
    /\ DOMAIN fResult.value = {"and"}
    /\ Len(fResult.value.and) = 2

(***************************************************************************)
(* Which records a wire filter on the status property selects: the wire    *)
(* protocol's reading of equals / does_not_equal / is_empty / is_not_empty *)
(* and of and / or, over a record's status option name ("" when unset).    *)
(***************************************************************************)
EmptyStatus == ""

RecordStatuses(config) == AllOptionNames(config) \cup {EmptyStatus}

MatchesCondition(status, cond) ==
    LET k == CHOOSE key \in DOMAIN cond : TRUE
    IN CASE k = "equals" -> status = cond.equals
         [] k = "does_not_equal" -> status # cond.does_not_equal
         [] k = "is_empty" -> status = EmptyStatus
         [] k = "is_not_empty" -> status # EmptyStatus
         [] OTHER -> FALSE

RECURSIVE Matches(_, _)
Matches(status, f) ==
    IF "or" \in DOMAIN f
    THEN \E i \in 1..Len(f.or) : Matches(status, f.or[i])
    ELSE IF "and" \in DOMAIN f
    THEN \A i \in 1..Len(f.and) : Matches(status, f.and[i])
    ELSE MatchesCondition(status, f.status)

\* The group reference of the condition resolves to zero options.
ResolvesToNone(config, filter) ==
    \/ /\ DOMAIN filter = {"equals"}
       /\ GroupOptionNames(config, filter.equals) = {}
    \/ /\ DOMAIN filter = {"does_not_equal"}
       /\ GroupOptionNames(config, filter.does_not_equal) = {}
    \/ /\ DOMAIN filter = {"in_any"}
       /\ GroupListOptionNames(config, filter.in_any) = {}
    \/ /\ DOMAIN filter = {"not_in_any"}
       /\ GroupListOptionNames(config, filter.not_in_any) = {}

\* C10 as stated: every status_group condition whose group reference resolves
\* to zero options translates, without raising, to a filter that no record
\* satisfies.
C10_Original ==
    (fpc = "done" /\ ResolvesToNone(propConfig, groupFilter)) =>
        /\ fResult.kind = "return"
        /\ \A status \in RecordStatuses(propConfig) : ~Matches(status, fResult.value)

\* C10 as amended: an equals or in_any condition whose group reference
\* resolves to zero options translates, without raising, to the filter
\* status equals "__INVALID__", which a record satisfies only if its status
\* option is itself named "__INVALID__"; a does_not_equal condition resolving
\* to zero options translates to is_not_empty, which every record with a
\* status satisfies.
C10_ZeroOptionFilters ==
    (fpc = "done" /\ ResolvesToNone(propConfig, groupFilter)) =>
        /\ fResult.kind = "return"
        /\ (DOMAIN groupFilter \subseteq {"equals", "in_any"}) =>
              /\ IsSentinel(fResult.value)
              /\ \A status \in RecordStatuses(propConfig) :
                    Matches(status, fResult.value) <=> status = INVALID
        /\ (DOMAIN groupFilter = {"does_not_equal"}) =>
              \A status \in RecordStatuses(propConfig) :
                    Matches(status, fResult.value) <=> status # EmptyStatus

\* equals on an unknown group of a property with options returned the sentinel.
C10_Witness ==
    /\ FilterDone("equals")
    /\ groupFilter.equals = UnknownGroup
    /\ Len(propConfig.options) = MaxOptions
    /\ INVALID \notin AllOptionNames(propConfig)
    /\ IsSentinel(fResult.value)

\* Whether the status_group condition selects a record by the set algebra:
\* its status option is in G(g), in the union of the G(gi), not in G(g), or
\* in ALL minus the union of the G(gi).
SelectedByGroups(config, filter, status) ==
    CASE DOMAIN filter = {"equals"} ->
            status \in GroupOptionNames(config, filter.equals)
      [] DOMAIN filter = {"in_any"} ->
            status \in GroupListOptionNames(config, filter.in_any)
      [] DOMAIN filter = {"does_not_equal"} ->
            status \notin GroupOptionNames(config, filter.does_not_equal)
      [] DOMAIN filter = {"not_in_any"} ->
            status \in RemainingOptionNames(config, filter.not_in_any)
      [] OTHER -> FALSE

GroupOperations == {{"equals"}, {"in_any"}, {"does_not_equal"}, {"not_in_any"}}

\* C20 as stated: the expansion of a status_group condition matches a record
\* exactly when the set algebra selects the record's status option.
C20_Original ==
    (fpc = "done" /\ DOMAIN groupFilter \in GroupOperations) =>
        /\ fResult.kind = "return"
        /\ \A status \in RecordStatuses(propConfig) :
              Matches(status, fResult.value)
                 <=> SelectedByGroups(propConfig, groupFilter, status)

\* The option-name set the expansion ranges over: G(g), the union of the
\* G(gi), or ALL minus that union.
ExpansionSet(config, filter) ==
    CASE DOMAIN filter = {"equals"} -> GroupOptionNames(config, filter.equals)
      [] DOMAIN filter = {"in_any"} -> GroupListOptionNames(config, filter.in_any)
      [] DOMAIN filter = {"does_not_equal"} ->
            GroupOptionNames(config, filter.does_not_equal)
      [] DOMAIN filter = {"not_in_any"} ->
            RemainingOptionNames(config, filter.not_in_any)
      [] OTHER -> {}

\* C20 as amended: when the option set S the expansion ranges over is not
\* empty, the expansion matches a record exactly when the set algebra selects
\* it (a record without a status being in no set).  When S is empty, the
\* expansion of equals and in_any matches exactly the records whose status
\* option is named "__INVALID__", the one of does_not_equal exactly the
\* records that have a status, and the one of not_in_any exactly the records
\* that have no status.
C20_ExpansionEquivalent ==
    (fpc = "done" /\ DOMAIN groupFilter \in GroupOperations) =>
        /\ fResult.kind = "return"
        /\ \A status \in RecordStatuses(propConfig) :
              Matches(status, fResult.value) <=>
                 IF ExpansionSet(propConfig, groupFilter) # {}
                 THEN SelectedByGroups(propConfig, groupFilter, status)
                 ELSE CASE DOMAIN groupFilter \subseteq {"equals", "in_any"} ->
                              status = INVALID
                        [] DOMAIN groupFilter = {"does_not_equal"} ->
                              status # EmptyStatus
                        [] OTHER -> status = EmptyStatus

\* not_in_any over one of two non-empty groups expanded to an OR that selects
\* some options of the catalog and not the others.
C20_Witness ==
    /\ FilterDone("not_in_any")
    /\ groupFilter.not_in_any = <<"g1">>
    /\ "or" \in DOMAIN fResult.value
    /\ GroupOptionNames(propConfig, "g1") # {}
    /\ \E status \in AllOptionNames(propConfig) : Matches(status, fResult.value)
    /\ \E status \in AllOptionNames(propConfig) : ~Matches(status, fResult.value)

\* A leaf of a wire filter on the status property.
IsStatusLeaf(f) == DOMAIN f = {"property", "status"}

\* The branches of a compound node, <<>> for a leaf.
BranchesOf(f) ==
    IF "or" \in DOMAIN f THEN f.or ELSE IF "and" \in DOMAIN f THEN f.and ELSE <<>>

\* C21: the expansion of a status_group condition is a leaf or an OR / AND
\* of at least two leaves; when the option set it ranges over is empty it is
\* the leaf equals "__INVALID__" (equals, in_any), is_empty (not_in_any) or
\* is_not_empty (does_not_equal), and when the set has one option it is the
\* direct equals / does_not_equal leaf on that option.
C21_NoDegenerateCompound ==
    (fpc = "done" /\ DOMAIN groupFilter \in GroupOperations) =>
        LET f == fResult.value
            S == ExpansionSet(propConfig, groupFilter)
            negation == DOMAIN groupFilter = {"does_not_equal"}
        IN /\ fResult.kind = "return"
           /\ IsStatusLeaf(f) \/ DOMAIN f \in {{"or"}, {"and"}}
           /\ ~IsStatusLeaf(f) =>
                 /\ Len(BranchesOf(f)) >= 2
                 /\ \A i \in 1..Len(BranchesOf(f)) : IsStatusLeaf(BranchesOf(f)[i])
           /\ Cardinality(S) <= 1 => IsStatusLeaf(f)
           /\ Cardinality(S) = 0 =>
                 f.status = IF negation THEN [is_not_empty |-> TRUE]
                            ELSE IF DOMAIN groupFilter = {"not_in_any"}
                            THEN [is_empty |-> TRUE]
                            ELSE [equals |-> INVALID]
           /\ Cardinality(S) = 1 =>
                 \E o \in S : f.status = IF negation THEN [does_not_equal |-> o]
                                         ELSE [equals |-> o]

\* C21 witness: not_in_any over the two groups that hold all the options of
\* a full catalog returned the leaf is_empty, not an empty OR.
C21_Witness ==
    /\ FilterDone("not_in_any")
    /\ Len(groupFilter.not_in_any) = 2
    /\ Len(propConfig.options) = MaxOptions
    /\ RemainingOptionNames(propConfig, groupFilter.not_in_any) = {}
    /\ fResult.value = StatusLeaf(StatusNotionName, [is_empty |-> TRUE])

(***************************************************************************)
(* JavaScript values of payloads and wire property bags: a string is       *)
(* [str |-> s], a number [num |-> n]; null and undefined are their own     *)
(* values.                                                                 *)
(***************************************************************************)
Str(x) == [str |-> x]
Num(n) == [num |-> n]
JsNull == [null |-> TRUE]
JsUndefined == [undefined |-> TRUE]
IsString(v) == DOMAIN v = {"str"}
IsNumber(v) == DOMAIN v = {"num"}
Bool(b) == [bool |-> b]
Arr(a) == [arr |-> a]
IsArray(v) == DOMAIN v = {"arr"}
IsObject(v) == DOMAIN v \cap {"str", "num", "bool", "null", "undefined", "arr"} = {}

\* Whether a value is truthy: null, undefined, '', 0 and false are not.
Truthy(v) == v \notin {JsNull, JsUndefined, Str(""), Num(0), Bool(FALSE)}

\* a || b
Or(a, b) == IF Truthy(a) THEN a ELSE b

\* obj[k], undefined when obj has no such key.
Field(obj, k) == IF k \in DOMAIN obj THEN obj[k] ELSE JsUndefined

\* String(value)
NumberText == <<"1", "2">>
ToJsString(v) ==
    IF IsString(v) THEN v.str
    ELSE IF IsNumber(v) THEN NumberText[v.num]
    ELSE IF v = JsNull THEN "null" ELSE "undefined"

\* JSON.stringify(x): a string that encodes x, not x itself.
JSONstringify(x) == [json |-> x]

(***************************************************************************)
(* The databases the client is generated for, and those it is not.         *)
(***************************************************************************)
TasksConfig ==
    [id |-> "db-tasks", name |-> "tasks", notionName |-> "Tasks DB",
     properties |->
        <<[name |-> "title", notionName |-> "Title", type |-> "title"],
          [name |-> "priority", notionName |-> "Priority", type |-> "number"],
          [name |-> "createdAt", notionName |-> "Created", type |-> "created_time"]>>]

\* A database with a status property that has groups and one that has none.
ProjectsConfig ==
    [id |-> "db-projects", name |-> "projects", notionName |-> "Projects DB",
     properties |-> <<
        [name |-> "title", notionName |-> "Title", type |-> "title"],
        [name |-> "status", notionName |-> StatusNotionName, type |-> "status",
         options |-> OptionsOf(3, 0),
         groups |-> <<[name |-> "g1", option_ids |-> <<"opt-1", "opt-2">>],
                      [name |-> "g2", option_ids |-> <<"opt-3">>]>>],
        [name |-> "phase", notionName |-> "Phase", type |-> "status",
         options |-> OptionsOf(2, 0)]>>]

Databases == <<TasksConfig, ProjectsConfig>>
DatabaseNameArgs == {"tasks", "NonExistentDatabase"}
UndefinedId == "undefined"

\* configs[databaseName]: <<config>>, or <<>> for undefined.
getDatabaseConfig(databaseName) ==
    LET i == FindIndex(Databases, "name", databaseName)
    IN IF i = 0 THEN <<>> ELSE <<Databases[i]>>

\* Mutant: a name that is not configured gets the id of the first database.
getDatabaseId_Fallback(name) ==
    LET i == FindIndex(Databases, "name", name)
    IN IF i = 0 THEN Databases[1].id ELSE Databases[i].id

\* this.databaseIds[name]
getDatabaseId(name) ==
    LET i == FindIndex(Databases, "name", name)
    IN IF i = 0 THEN UndefinedId ELSE Databases[i].id

\* config?.properties.find(p => p[key] === v): <<propConfig>> or <<>>.
FindProperty(databaseName, key, v) ==
    LET config == getDatabaseConfig(databaseName)
    IN IF config = <<>> THEN <<>>
       ELSE LET i == FindIndex(config[1].properties, key, v)
            IN IF i = 0 THEN <<>> ELSE <<config[1].properties[i]>>

(***************************************************************************)
(* The validators: the create and update JSON schemas of a database,       *)
(* compiled with allErrors.                                                *)
(***************************************************************************)
\* Mutant: a read-only type gets a schema like an unknown type.
generateCreatePropertySchema_ReadOnlyAny(prop) ==
    CASE prop.type \in {"title", "rich_text"} -> <<"string">>
      [] prop.type = "number" -> <<"number">>
      [] OTHER -> <<"any">>

\* generateCreatePropertySchema: <<type>>, or <<>> (null) for a read-only type.
generateCreatePropertySchema(prop) ==
    CASE prop.type \in {"title", "rich_text", "select", "status", "url", "email",
                        "phone_number"} -> <<"string">>
      [] prop.type = "number" -> <<"number">>
      [] prop.type \in {"multi_select", "people", "relation", "files"} -> <<"array">>
      [] prop.type = "date" -> <<"object">>
      [] prop.type = "checkbox" -> <<"boolean">>
      [] prop.type \in {"unique_id", "created_time", "created_by", "last_edited_time",
                        "last_edited_by", "formula", "rollup"} -> <<>>
      [] OTHER -> <<"any">>

SchemaProperties(database) ==
    LET props == {q \in Range(database.properties) :
                    generateCreatePropertySchema(q) # <<>>}
    IN [n \in {q.name : q \in props} |->
           generateCreatePropertySchema(
               CHOOSE q \in props : q.name = n)[1]]

generateCreateSchema(database) ==
    [properties |-> SchemaProperties(database),
     required |-> {q.name : q \in {r \in Range(database.properties) :
                                      /\ generateCreatePropertySchema(r) # <<>>
                                      /\ r.type = "title"}}]

generateUpdateSchema(database) ==
    [properties |-> SchemaProperties(database), required |-> {}]

TypeOk(type, v) ==
    CASE type = "string" -> IsString(v)
      [] type = "number" -> IsNumber(v)
      [] type = "array" -> IsArray(v)
      [] type = "boolean" -> DOMAIN v = {"bool"}
      [] type = "object" -> IsObject(v)
      [] OTHER -> TRUE

\* validator.errors after validator(data), as a set (empty when data is valid):
\* required, additionalProperties: false, and the type of each property.  The
\* validator takes a property whose value is undefined as absent for required
\* and type, and as present for additionalProperties.
ValidationErrors(schema, data) ==
    {[keyword |-> "required", missingProperty |-> k] :
        k \in {j \in schema.required : Field(data, j) = JsUndefined}}
    \cup {[keyword |-> "additionalProperties", additionalProperty |-> k] :
        k \in DOMAIN data \ DOMAIN schema.properties}
    \cup {[keyword |-> "type", instancePath |-> k] :
        k \in {j \in DOMAIN data \cap DOMAIN schema.properties :
                  /\ data[j] # JsUndefined
                  /\ ~TypeOk(schema.properties[j], data[j])}}

\* validators[mode][databaseName] is set for the generated databases only.
HasValidator(mode, databaseName) == getDatabaseConfig(databaseName) # <<>>

ValidatorErrors(mode, databaseName, data) ==
    LET database == getDatabaseConfig(databaseName)[1]
    IN ValidationErrors(IF mode = "create" THEN generateCreateSchema(database)
                        ELSE generateUpdateSchema(database), data)

(***************************************************************************)
(* The property codec, for the property types of the modelled databases.   *)
(***************************************************************************)
\* String(v) of every element, for multi_select.
NameObjects(a) == [i \in 1..Len(a) |-> [name |-> Str(ToJsString(a[i]))]]
IdObjects(a) == [i \in 1..Len(a) |-> [id |-> a[i]]]
ExternalFiles(a) ==
    [i \in 1..Len(a) |-> [name |-> Field(a[i], "name"),
                          external |-> [url |-> Field(a[i], "url")]]]

convertPropertyToNotion(config, value) ==
    IF value = JsNull \/ value = JsUndefined THEN JsUndefined
    ELSE CASE config.type = "title" ->
                [title |-> <<[text |-> [content |-> Str(ToJsString(value))]]>>]
           [] config.type = "rich_text" ->
                [rich_text |-> <<[text |-> [content |-> value]]>>]
           [] config.type = "number" -> [number |-> value]
           [] config.type = "select" -> [select |-> [name |-> value]]
           [] config.type = "status" ->
                IF IsString(value) THEN [status |-> [name |-> value]]
                ELSE IF IsObject(value) /\ Truthy(Field(value, "name"))
                THEN [status |-> [name |-> value.name]]
                ELSE [status |-> [name |-> value]]
           [] config.type = "multi_select" ->
                [multi_select |-> IF IsArray(value) THEN Arr(NameObjects(value.arr))
                                  ELSE Arr(<<>>)]
           [] config.type = "date" -> [date |-> value]
           [] config.type = "people" ->
                [people |-> IF IsArray(value) THEN Arr(IdObjects(value.arr))
                            ELSE Arr(<<>>)]
           [] config.type = "files" ->
                [files |-> IF IsArray(value) THEN Arr(ExternalFiles(value.arr))
                           ELSE Arr(<<>>)]
           [] config.type = "checkbox" -> [checkbox |-> value]
           [] config.type = "url" -> [url |-> value]
           [] config.type = "email" -> [email |-> value]
           [] config.type = "phone_number" -> [phone_number |-> value]
           [] config.type = "relation" ->
                [relation |-> IF IsArray(value) THEN Arr(IdObjects(value.arr))
                              ELSE Arr(<<>>)]
           [] OTHER -> value

\* Mutant: a field without a mapping is handed on under its own name.
convertPropertiesToNotion_KeepUnmapped(databaseName, properties) ==
    [k \in DOMAIN properties |-> properties[k]]

convertPropertiesToNotion(databaseName, properties) ==
    LET mapped == {k \in DOMAIN properties : FindProperty(databaseName, "name", k) # <<>>}
        ConfigOf(k) == FindProperty(databaseName, "name", k)[1]
    IN [n \in {ConfigOf(k).notionName : k \in mapped} |->
           LET k == CHOOSE j \in mapped : ConfigOf(j).notionName = n
           IN convertPropertyToNotion(ConfigOf(k), properties[k])]

\* val[key]?.[0]?.text?.content, val[key] being an array of text runs when
\* val has the key.
FirstContent(val, key) ==
    IF key \notin DOMAIN val THEN JsUndefined
    ELSE IF Len(val[key]) = 0 THEN JsUndefined
    ELSE val[key][1].text.content

\* Mutant: the first group of the config, whatever the option.
GroupOfOption_FirstGroup(config, id) == Str(config.groups[1].name)

\* config.groups.find(g => g.option_ids.includes(statusValue.id))?.name || undefined
GroupOfOption(config, id) ==
    LET hits == {g \in 1..Len(config.groups) :
                    \E k \in 1..Len(config.groups[g].option_ids) :
                        Str(config.groups[g].option_ids[k]) = id}
    IN IF hits = {} THEN JsUndefined
       ELSE LET first == CHOOSE g \in hits : \A h \in hits : g <= h
            IN IF config.groups[first].name = "" THEN JsUndefined
               ELSE Str(config.groups[first].name)

\* { ...statusValue, group: ... }
WithGroup(statusValue, group) ==
    [k \in DOMAIN statusValue \cup {"group"} |->
        IF k = "group" THEN group ELSE statusValue[k]]

convertPropertyFromNotion(config, value) ==
    IF ~Truthy(value) THEN JsNull
    ELSE CASE config.type = "title" -> Or(FirstContent(value, "title"), Str(""))
           [] config.type = "rich_text" ->
                Or(FirstContent(value, "rich_text"), Str(""))
           [] config.type = "number" -> Field(value, "number")
           [] config.type = "select" ->
                IF Truthy(Field(value, "select"))
                THEN Or(Field(value.select, "name"), JsNull)
                ELSE JsNull
           [] config.type = "status" ->
                LET statusValue == Field(value, "status")
                IN IF /\ Truthy(statusValue)
                      /\ Truthy(Field(statusValue, "name"))
                      /\ "groups" \in DOMAIN config
                      /\ Len(config.groups) > 0
                   THEN WithGroup(statusValue,
                                  GroupOfOption(config, Field(statusValue, "id")))
                   ELSE statusValue
           [] config.type = "multi_select" -> Or(Field(value, "multi_select"), Arr(<<>>))
           [] config.type = "date" -> Field(value, "date")
           [] config.type = "people" -> Or(Field(value, "people"), Arr(<<>>))
           [] config.type = "files" -> Or(Field(value, "files"), Arr(<<>>))
           [] config.type = "checkbox" -> Or(Field(value, "checkbox"), Bool(FALSE))
           [] config.type = "url" -> Field(value, "url")
           [] config.type = "email" -> Field(value, "email")
           [] config.type = "phone_number" -> Field(value, "phone_number")
           [] config.type = "relation" ->
                IF Truthy(Field(value, "relation"))
                THEN Arr([i \in 1..Len(value.relation.arr) |->
                             Field(value.relation.arr[i], "id")])
                ELSE Arr(<<>>)
           [] config.type \in {"created_time", "created_by", "last_edited_time",
                               "last_edited_by", "formula", "rollup", "unique_id"} ->
                Field(value, config.type)
           [] OTHER -> value

convertPropertiesFromNotion(databaseName, properties) ==
    LET mapped == {n \in DOMAIN properties :
                      FindProperty(databaseName, "notionName", n) # <<>>}
        ConfigOf(n) == FindProperty(databaseName, "notionName", n)[1]
    IN [k \in {ConfigOf(n).name : n \in mapped} |->
           LET n == CHOOSE j \in mapped : ConfigOf(j).name = k
           IN convertPropertyFromNotion(ConfigOf(n), properties[n])]

(***************************************************************************)
(* createPage, updatePage, deletePage: what each does up to its transport  *)
(* call, and what it does with the response.                               *)
(***************************************************************************)
Send(request) == [kind |-> "send", request |-> request]

\* new Error(`Validation failed: ${JSON.stringify(validator.errors)}`)
ValidationFailed(errors) ==
    [name |-> "Error", message |-> <<"Validation failed: ", JSONstringify(errors)>>]

PartialResponseError(what) ==
    [name |-> "Error",
     message |-> <<"Failed to ", what, " page: received partial response">>]

\* Mutant: the validator's verdict is not acted upon.
createPageStart_NoGate(databaseName, properties) ==
    Send([method |-> "pages.create",
          parent |-> [database_id |-> getDatabaseId(databaseName)],
          properties |-> convertPropertiesToNotion(databaseName, properties)])

\* Mutant: a database without a validator is refused.
createPageStart_RequireValidator(databaseName, properties) ==
    IF \/ ~HasValidator("create", databaseName)
       \/ ValidatorErrors("create", databaseName, properties) # {}
    THEN Throw(ValidationFailed({}))
    ELSE Send([method |-> "pages.create",
               parent |-> [database_id |-> getDatabaseId(databaseName)],
               properties |-> convertPropertiesToNotion(databaseName, properties)])

createPageStart(databaseName, properties) ==
    LET databaseId == getDatabaseId(databaseName)
    IN IF /\ HasValidator("create", databaseName)
          /\ ValidatorErrors("create", databaseName, properties) # {}
       THEN Throw(ValidationFailed(ValidatorErrors("create", databaseName, properties)))
       ELSE Send([method |-> "pages.create",
                  parent |-> [database_id |-> databaseId],
                  properties |-> convertPropertiesToNotion(databaseName, properties)])

updatePageStart(pageId, databaseName, properties) ==
    IF /\ HasValidator("update", databaseName)
       /\ ValidatorErrors("update", databaseName, properties) # {}
    THEN Throw(ValidationFailed(ValidatorErrors("update", databaseName, properties)))
    ELSE Send([method |-> "pages.update",
               page_id |-> pageId,
               properties |-> convertPropertiesToNotion(databaseName, properties)])

\* Mutant: a response without a property bag is returned with an empty one.
pageCallFinish_Lenient(what, databaseName, response) ==
    IF "properties" \notin DOMAIN response
    THEN Return([id |-> response.id, properties |-> EmptyObject])
    ELSE Return([response EXCEPT
                    !.properties = convertPropertiesFromNotion(databaseName, @)])

\* The continuation of createPage / updatePage after the await.
pageCallFinish(what, databaseName, response) ==
    IF "properties" \notin DOMAIN response
    THEN Throw(PartialResponseError(what))
    ELSE Return([response EXCEPT
                    !.properties = convertPropertiesFromNotion(databaseName, @)])

\* Mutant: the archive request also carries a property bag.
deletePageRequest_WithProperties(pageId) ==
    [method |-> "pages.update", page_id |-> pageId, archived |-> TRUE,
     properties |-> EmptyObject]

deletePageRequest(pageId) ==
    [method |-> "pages.update", page_id |-> pageId, archived |-> TRUE]

(***************************************************************************)
(* The call arguments and the transport's answers.                         *)
(***************************************************************************)
PayloadKeys == {"title", "priority", "createdAt", "ghost"}
PayloadValues == {Str("A"), Num(1), JsNull, JsUndefined}
Payloads == UNION {[K -> PayloadValues] : K \in SUBSET PayloadKeys}
PageIds == {"page-1", "page-2"}

CreatedTimeBag == [Created |-> [created_time |-> Str("2024-01-01T00:00:00.000Z")]]

\* The page objects the transport may answer a request with: a full page whose
\* property bag holds what the request sent (with or without the read-only
\* Created property), or a partial page without a property bag.
PageResponses(request) ==
    LET id == IF "page_id" \in DOMAIN request THEN request.page_id ELSE "page-1"
        archived == "archived" \in DOMAIN request
        sent == IF "properties" \in DOMAIN request THEN request.properties
                ELSE EmptyObject
    IN {[id |-> id, archived |-> archived, properties |-> bag] :
            bag \in {sent, sent @@ CreatedTimeBag}}
       \cup {[id |-> id]}

TransportError == [name |-> "APIResponseError", message |-> <<"request failed">>]

\* The errors a transport call may reject with.
TransportErrors ==
    {TransportError, [name |-> "RequestTimeoutError", message |-> <<"timed out">>]}

InitCrud ==
    /\ CrudAtRest
    /\ FilterAtRest
    /\ PageAtRest
    /\ FnAtRest

CreatePage ==
    \E databaseName \in DatabaseNameArgs, properties \in Payloads :
        LET start == createPageStart(databaseName, properties)
        IN /\ cpc = "idle"
           /\ call' = [method |-> "createPage", databaseName |-> databaseName,
                       properties |-> properties]
           /\ IF start.kind = "throw"
              THEN /\ outcome' = start
                   /\ cpc' = "done"
                   /\ UNCHANGED transportLog
              ELSE /\ transportLog' = Append(transportLog, start.request)
                   /\ cpc' = "awaitCreate"
                   /\ UNCHANGED outcome
           /\ UNCHANGED rejection
           /\ UNCHANGED filterVars
           /\ UNCHANGED pageVars
           /\ UNCHANGED fnVars

UpdatePage ==
    \E pageId \in PageIds, databaseName \in DatabaseNameArgs, properties \in Payloads :
        LET start == updatePageStart(pageId, databaseName, properties)
        IN /\ cpc = "idle"
           /\ call' = [method |-> "updatePage", pageId |-> pageId,
                       databaseName |-> databaseName, properties |-> properties]
           /\ IF start.kind = "throw"
              THEN /\ outcome' = start
                   /\ cpc' = "done"
                   /\ UNCHANGED transportLog
              ELSE /\ transportLog' = Append(transportLog, start.request)
                   /\ cpc' = "awaitUpdate"
                   /\ UNCHANGED outcome
           /\ UNCHANGED rejection
           /\ UNCHANGED filterVars
           /\ UNCHANGED pageVars
           /\ UNCHANGED fnVars

DeletePage ==
    \E pageId \in PageIds :
        /\ cpc = "idle"
        /\ call' = [method |-> "deletePage", pageId |-> pageId]
        /\ transportLog' = Append(transportLog, deletePageRequest(pageId))
        /\ cpc' = "awaitArchive"
        /\ UNCHANGED <<outcome, rejection>>
        /\ UNCHANGED filterVars
        /\ UNCHANGED pageVars
        /\ UNCHANGED fnVars

\* client.pages.create / client.pages.update resolves.
PageCallResolves ==
    /\ cpc \in {"awaitCreate", "awaitUpdate"}
    /\ \E response \in PageResponses(transportLog[Len(transportLog)]) :
        /\ outcome' = pageCallFinish(IF cpc = "awaitCreate" THEN "create" ELSE "update",
                                     call.databaseName, response)
        /\ cpc' = "done"
        /\ UNCHANGED <<call, transportLog, rejection>>
        /\ UNCHANGED filterVars
        /\ UNCHANGED pageVars
        /\ UNCHANGED fnVars

\* The archiving update resolves: deletePage returns the response as it is.
ArchiveResolves ==
    /\ cpc = "awaitArchive"
    /\ \E response \in PageResponses(transportLog[Len(transportLog)]) :
        /\ outcome' = Return(response)
        /\ cpc' = "done"
        /\ UNCHANGED <<call, transportLog, rejection>>
        /\ UNCHANGED filterVars
        /\ UNCHANGED pageVars
        /\ UNCHANGED fnVars

\* Mutant: the error of the transport is wrapped in an error of the facade.
awaitRejected_Wrapped(error) ==
    Throw([name |-> "Error", message |-> <<"request failed">>, cause |-> error])

\* await of a promise that rejects, outside any try block: the async method
\* rejects with the same error.
awaitRejected(error) == Throw(error)

\* The transport call rejects: the error leaves the facade method as it is.
TransportRejects ==
    /\ cpc \in {"awaitCreate", "awaitUpdate", "awaitArchive", "awaitQuery",
               "awaitRetrieve"}
    /\ \E error \in TransportErrors :
        /\ rejection' = error
        /\ outcome' = awaitRejected(error)
    /\ cpc' = "done"
    /\ UNCHANGED <<call, transportLog>>
    /\ UNCHANGED filterVars
    /\ UNCHANGED pageVars
    /\ UNCHANGED fnVars

NextCrud ==
    \/ CreatePage
    \/ UpdatePage
    \/ DeletePage
    \/ PageCallResolves
    \/ ArchiveResolves
    \/ TransportRejects

SpecCrud == InitCrud /\ [][NextCrud]_vars

(***************************************************************************)
(* Claims about createPage, updatePage and deletePage.                     *)
(***************************************************************************)
ModeOf(c) == IF c.method = "createPage" THEN "create" ELSE "update"

\* The payload of the call fails the database's validator in the call's mode.
FailsValidation(c) ==
    /\ c.method \in {"createPage", "updatePage"}
    /\ HasValidator(ModeOf(c), c.databaseName)
    /\ ValidatorErrors(ModeOf(c), c.databaseName, c.properties) # {}

C6_DeleteArchives ==
    call.method = "deletePage" =>
        transportLog =
            <<[method |-> "pages.update", page_id |-> call.pageId, archived |-> TRUE]>>

\* A deletePage call ran to its end.
C6_Witness ==
    /\ cpc = "done"
    /\ call.method = "deletePage"
    /\ outcome.kind = "return"
    /\ Len(transportLog) = 1

(***************************************************************************)
(* queryDatabase, queryDatabaseAll and queryDatabaseIterator.  The calls   *)
(* carry no filter and no sorts, so processedArgs is args.                 *)
(***************************************************************************)
DefaultPageSize == 100
PageSizeArgs == {<<>>, <<1>>, <<2>>}    \* args.page_size; <<>> is undefined
CursorArgs == {UndefinedCursor} \cup Cursors
QueryDatabaseName == "tasks"

\* args?.page_size || 100
EffectivePageSize(page_size) ==
    IF page_size = <<>> \/ page_size[1] = 0 THEN DefaultPageSize ELSE page_size[1]

\* Mutant: the next fetch starts over instead of following the cursor.
NextCursor_Restart(next_cursor) == UndefinedCursor

\* response.next_cursor || undefined
NextCursor(next_cursor) ==
    IF next_cursor = NullCursor \/ next_cursor = "" THEN UndefinedCursor
    ELSE next_cursor

\* The property bag of every object the transport lists.
ItemBag ==
    [Title |-> [title |-> <<[text |-> [content |-> Str("A")]]>>],
     Created |-> [created_time |-> Str("2024-01-01T00:00:00.000Z")]]

\* What the transport answers to one start cursor: so many full page objects,
\* then possibly one partial object, has_more and next_cursor.  A response
\* holds at most page_size objects (100 when the request names none), and
\* next_cursor is a cursor only when has_more is true.
PageShapes(page_size) ==
    {s \in [full : 0..MaxPageLen, partial : 0..1, has_more : BOOLEAN,
            next_cursor : Cursors \cup {NullCursor}] :
        /\ s.full + s.partial <= MaxPageLen
        /\ s.full + s.partial <= EffectivePageSize(page_size)
        /\ (~s.has_more => s.next_cursor = NullCursor)}

\* response.results of the transport: the objects are told apart by the
\* cursor that lists them and their position.
RawResults(key, shape) ==
    [i \in 1..(shape.full + shape.partial) |->
        IF i <= shape.full
        THEN [id |-> <<key, i>>, properties |-> ItemBag]
        ELSE [id |-> <<key, i>>]]

\* this.client.databases.query(request)
databasesQuery(request) ==
    LET shape == server[request.start_cursor]
    IN [results |-> RawResults(request.start_cursor, shape),
        has_more |-> shape.has_more,
        next_cursor |-> shape.next_cursor]

\* queryDatabase up to its await: { database_id: databaseId, ...processedArgs }
queryRequest(databaseName, args) ==
    [database_id |-> getDatabaseId(databaseName),
     start_cursor |-> args.start_cursor,
     page_size |-> args.page_size]

\* queryDatabase after its await: partial objects are dropped, the property
\* bag of every other object is decoded.
queryResult(databaseName, response) ==
    LET full == SelectSeq(response.results, LAMBDA o : "properties" \in DOMAIN o)
    IN [results |-> [i \in 1..Len(full) |->
                        [full[i] EXCEPT
                            !.properties = convertPropertiesFromNotion(databaseName, @)]],
        has_more |-> response.has_more,
        next_cursor |-> response.next_cursor]

queryDatabase(databaseName, args) ==
    queryResult(databaseName, databasesQuery(queryRequest(databaseName, args)))

\* { ...args, start_cursor: cursor, page_size: args?.page_size || 100 }
pagedArgs(args, start_cursor) ==
    [start_cursor |-> start_cursor,
     page_size |-> <<EffectivePageSize(args.page_size)>>]

\* Mutant: only the page fetched last is kept.
push_LastPage(all, results) == results

\* allResults.push(...response.results)
push(all, results) == all \o results

\* Mutant: the last item of every page is skipped.
forOfDone_SkipLast(yielded, results) == yielded + 1 >= Len(results)

\* Mutant: only the first item of every page is yielded.
forOfDone_FirstOnly(yielded, results) == yielded >= 1 \/ Len(results) = 0

\* for (const item of response.results): no item is left after `yielded' items.
forOfDone(yielded, results) == yielded >= Len(results)

\* Mutant: the loop also ends when the response names no next cursor.
LoopTurn_StopOnNull(response, awaitPc, donePc) ==
    /\ hasMore' = response.has_more
    /\ cursor' = NextCursor(response.next_cursor)
    /\ IF response.has_more /\ response.next_cursor # NullCursor
       THEN /\ Len(requests) < MaxFetches
            /\ requests' = Append(requests,
                   queryRequest(QueryDatabaseName,
                                pagedArgs(qArgs, NextCursor(response.next_cursor))))
            /\ ppc' = awaitPc
       ELSE /\ requests' = requests
            /\ ppc' = donePc

\* Mutant: the loop issues the fetch of the next page and one more fetch
\* before it suspends.
LoopTurn_Prefetch(response, awaitPc, donePc) ==
    /\ hasMore' = response.has_more
    /\ cursor' = NextCursor(response.next_cursor)
    /\ IF response.has_more
       THEN /\ Len(requests) < MaxFetches
            /\ requests' = requests \o
                   <<queryRequest(QueryDatabaseName,
                                  pagedArgs(qArgs, NextCursor(response.next_cursor))),
                     queryRequest(QueryDatabaseName,
                                  pagedArgs(qArgs, NextCursor(response.next_cursor)))>>
            /\ ppc' = awaitPc
       ELSE /\ requests' = requests
            /\ ppc' = donePc

\* The end of one turn of `while (hasMore)' and the start of the next: the
\* loop variables are set from the response, then either the next request
\* is issued or the loop ends.
LoopTurn(response, awaitPc, donePc) ==
    /\ hasMore' = response.has_more
    /\ cursor' = NextCursor(response.next_cursor)
    /\ IF response.has_more
       THEN /\ Len(requests) < MaxFetches
            /\ requests' = Append(requests,
                   queryRequest(QueryDatabaseName,
                                pagedArgs(qArgs, NextCursor(response.next_cursor))))
            /\ ppc' = awaitPc
       ELSE /\ requests' = requests
            /\ ppc' = donePc

InitPage ==
    /\ qArgs \in [page_size : PageSizeArgs]
    /\ server \in [CursorArgs -> PageShapes(qArgs.page_size)]
    /\ LocalsAtRest
    /\ CrudAtRest
    /\ FilterAtRest
    /\ FnAtRest

\* queryDatabaseAll(databaseName, args), up to its first await.
QueryDatabaseAll ==
    /\ ppc = "idle"
    /\ ppc' = "allAwait"
    /\ requests' = <<queryRequest(QueryDatabaseName, pagedArgs(qArgs, UndefinedCursor))>>
    /\ UNCHANGED <<server, qArgs, responses, cursor, hasMore, allResults, page, idx,
                   consumed, requested, stopped, pOutcome>>
    /\ UNCHANGED filterVars
    /\ UNCHANGED crudVars
    /\ UNCHANGED fnVars

\* queryDatabaseAll from the arrival of a response to its next await or its
\* return.
AllResolves ==
    /\ ppc = "allAwait"
    /\ LET response == queryResult(QueryDatabaseName,
                                   databasesQuery(requests[Len(requests)]))
       IN /\ responses' = Append(responses, response)
          /\ allResults' = push(allResults, response.results)
          /\ LoopTurn(response, "allAwait", "allDone")
          /\ pOutcome' = IF response.has_more THEN pOutcome
                         ELSE Return(push(allResults, response.results))
    /\ UNCHANGED <<server, qArgs, page, idx, consumed, requested, stopped>>
    /\ UNCHANGED filterVars
    /\ UNCHANGED crudVars
    /\ UNCHANGED fnVars

\* queryDatabaseIterator(databaseName, args): the generator object is made
\* and none of its body runs.
QueryDatabaseIterator ==
    /\ ppc = "idle"
    /\ ppc' = "itStart"
    /\ UNCHANGED <<server, qArgs, requests, responses, cursor, hasMore, allResults,
                   page, idx, consumed, requested, stopped, pOutcome>>
    /\ UNCHANGED filterVars
    /\ UNCHANGED crudVars
    /\ UNCHANGED fnVars

\* The consumer asks for an item: the generator runs from where it is
\* suspended (its start, or a yield) to its next yield, await or end.
IterNext ==
    /\ ppc \in {"itStart", "itYield"}
    /\ requested' = requested + 1
    /\ IF ppc = "itStart"
       THEN /\ ppc' = "itAwait"
            /\ requests' = <<queryRequest(QueryDatabaseName,
                                          pagedArgs(qArgs, UndefinedCursor))>>
            /\ UNCHANGED <<cursor, hasMore, idx, consumed>>
       ELSE IF ~forOfDone(idx, page)
       THEN /\ idx' = idx + 1
            /\ consumed' = Append(consumed, page[idx + 1])
            /\ UNCHANGED <<ppc, requests, cursor, hasMore>>
       ELSE /\ LoopTurn(responses[Len(responses)], "itAwait", "itDone")
            /\ UNCHANGED <<idx, consumed>>
    /\ UNCHANGED <<server, qArgs, responses, allResults, page, stopped, pOutcome>>
    /\ UNCHANGED filterVars
    /\ UNCHANGED crudVars
    /\ UNCHANGED fnVars

\* The generator from the arrival of a response to its next yield, await or
\* end.
IterResolves ==
    /\ ppc = "itAwait"
    /\ LET response == queryResult(QueryDatabaseName,
                                   databasesQuery(requests[Len(requests)]))
       IN /\ responses' = Append(responses, response)
          /\ page' = response.results
          /\ IF ~forOfDone(0, response.results)
             THEN /\ idx' = 1
                  /\ consumed' = Append(consumed, response.results[1])
                  /\ ppc' = "itYield"
                  /\ UNCHANGED <<requests, cursor, hasMore>>
             ELSE /\ idx' = 0
                  /\ LoopTurn(response, "itAwait", "itDone")
                  /\ UNCHANGED consumed
    /\ UNCHANGED <<server, qArgs, allResults, requested, stopped, pOutcome>>
    /\ UNCHANGED filterVars
    /\ UNCHANGED crudVars
    /\ UNCHANGED fnVars

\* The consumer leaves its loop: return() completes the generator where it is
\* suspended.
IterReturn ==
    /\ ppc \in {"itStart", "itYield"}
    /\ ppc' = "itDone"
    /\ stopped' = TRUE
    /\ UNCHANGED <<server, qArgs, requests, responses, cursor, hasMore, allResults,
                   page, idx, consumed, requested, pOutcome>>
    /\ UNCHANGED filterVars
    /\ UNCHANGED crudVars
    /\ UNCHANGED fnVars

NextPage ==
    \/ QueryDatabaseAll
    \/ AllResolves
    \/ QueryDatabaseIterator
    \/ IterNext
    \/ IterResolves
    \/ IterReturn

SpecPage == InitPage /\ [][NextPage]_vars

(***************************************************************************)
(* Claims about pagination.                                                *)
(***************************************************************************)
LastResponse == responses[Len(responses)]

\* A fetch was issued and its response has not arrived.
InFlight == Len(requests) > Len(responses)

\* The marker the manual iteration ends with when it cannot go on.
Unfinished == [id |-> <<"unfinished", 0>>]

\* A caller's own loop: one queryDatabase call without a cursor, then one
\* per page with the cursor the previous page returned, until a page reports
\* has_more = false; the results are concatenated.
RECURSIVE manualQuery(_, _)
manualQuery(start_cursor, fuel) ==
    LET response == queryDatabase(QueryDatabaseName,
                        [start_cursor |-> start_cursor, page_size |-> qArgs.page_size])
    IN IF ~response.has_more THEN response.results
       ELSE IF fuel = 0 \/ response.next_cursor \notin CursorArgs
       THEN response.results \o <<Unfinished>>
       ELSE response.results \o manualQuery(response.next_cursor, fuel - 1)

\* C2: when queryDatabaseAll returns, its result is the concatenation, in
\* order, of the result lists a manual queryDatabase iteration with
\* the same database and page size obtains from the same transport.
C2_AllEqualsManual ==
    ppc = "allDone" => pOutcome = Return(manualQuery(UndefinedCursor, MaxFetches))

\* C2 witness: queryDatabaseAll returned the items of three pages.
C2_Witness ==
    /\ ppc = "allDone"
    /\ Len(requests) = 3
    /\ pOutcome.kind = "return"
    /\ Len(pOutcome.value) >= 3
    /\ \A i \in 1..3 : Len(responses[i].results) >= 1

Ceil(n, d) == (n + d - 1) \div d

\* The consumer holds its first N items and has asked for no more.
TookOnly == (ppc = "itYield" \/ stopped) /\ Len(consumed) >= 1

\* Every page fetched before the current one held a full page of items.
FullPagesBefore ==
    \A i \in 1..(Len(responses) - 1) :
        Len(responses[i].results) = EffectivePageSize(qArgs.page_size)

\* C3, as stated: a consumer that took only the first N >= 1 items caused at
\* most ceil(N / pageSize) transport calls, whatever the pages hold.
C3_Original ==
    TookOnly => Len(requests) <= Ceil(Len(consumed), EffectivePageSize(qArgs.page_size))

\* C3: a consumer that took only the first N >= 1 items caused at most
\* ceil(N / pageSize) transport calls, provided every page fetched before
\* the one holding the N-th item decoded to exactly pageSize items.
C3_CallsForFirstN ==
    (TookOnly /\ FullPagesBefore) =>
        Len(requests) <= Ceil(Len(consumed), EffectivePageSize(qArgs.page_size))

\* C3 witness: the consumer stopped after three items of full pages of two,
\* and two calls were made.
C3_Witness ==
    /\ stopped
    /\ Len(consumed) = 3
    /\ qArgs.page_size = <<2>>
    /\ FullPagesBefore
    /\ Len(requests) = 2
    /\ LastResponse.has_more

C4_FetchWhenExhausted ==
    (ppc \in {"itStart", "itAwait", "itYield", "itDone"} /\ InFlight) =>
        /\ idx = Len(page)
        /\ requested = Len(consumed) + 1
        /\ ~stopped

\* C4: the iterator has a fetch in flight only when every item of the
\* current page was yielded and the consumer has asked for one more item, and
\* no transport call is made in or after the step in which the consumer
\* leaves early.
C4_LazyFetch ==
    /\ [](C4_FetchWhenExhausted)
    /\ [][stopped' => requests' = requests]_vars

\* C4 witness: the consumer left inside the second page while the transport
\* had more pages, and only two calls were made.
C4_Witness ==
    /\ stopped
    /\ Len(requests) = 2
    /\ Len(responses) = 2
    /\ LastResponse.has_more
    /\ idx < Len(page)

\* The cursor a request carries is the one the response returned, a null
\* next cursor being an absent start cursor.
SameCursor(start_cursor, next_cursor) ==
    IF next_cursor = NullCursor THEN start_cursor = UndefinedCursor
    ELSE start_cursor = next_cursor

\* The first fetch carries no cursor, each later fetch the next cursor of the
\* response just before it and follows has_more = true; the first response
\* with has_more = false is the last one, and the call has returned on it.
CursorChain ==
    ppc \in {"allAwait", "allDone"} =>
        /\ Len(requests) >= 1
        /\ requests[1].start_cursor = UndefinedCursor
        /\ \A i \in 2..Len(requests) :
              /\ responses[i - 1].has_more
              /\ SameCursor(requests[i].start_cursor, responses[i - 1].next_cursor)
        /\ \A i \in 1..Len(responses) :
              ~responses[i].has_more => (i = Len(requests) /\ ppc = "allDone")
        /\ ppc = "allDone" =>
              /\ Len(responses) = Len(requests)
              /\ ~LastResponse.has_more
              /\ pOutcome.kind = "return"
        /\ ppc = "allAwait" =>
              /\ Len(requests) = Len(responses) + 1
              /\ pOutcome = NoResult
              /\ requests[Len(requests)].start_cursor \in CursorArgs

\* The number of pages from start_cursor to the first page that reports
\* has_more = false, following the cursors; more than MaxFetches when the
\* transport reports no such page within the fetches left.
RECURSIVE pagesLeft(_, _)
pagesLeft(start_cursor, fuel) ==
    IF fuel = 0 \/ start_cursor \notin CursorArgs THEN MaxFetches + 1
    ELSE IF ~server[start_cursor].has_more THEN 1
    ELSE 1 + pagesLeft(IF server[start_cursor].next_cursor = NullCursor
                       THEN UndefinedCursor
                       ELSE server[start_cursor].next_cursor, fuel - 1)

\* The transport reports has_more = false within the fetches the call may
\* still make.
WalkEnds ==
    /\ ppc = "allAwait"
    /\ Len(requests) - 1
         + pagesLeft(requests[Len(requests)].start_cursor, MaxFetches) <= MaxFetches

\* The fetches queryDatabaseAll has yet to receive.
Variant ==
    IF ppc = "allAwait"
    THEN pagesLeft(requests[Len(requests)].start_cursor, MaxFetches)
    ELSE 0

\* The pending response can be taken: the step of AllResolves is possible.
CanProceed ==
    WalkEnds =>
        (databasesQuery(requests[Len(requests)]).has_more
            => Len(requests) < MaxFetches)

\* C5: queryDatabaseAll issues its first fetch without a cursor and each
\* later fetch with the next cursor of the response just before it, only
\* after that response reported has_more = true; it stops at the first
\* response with has_more = false; and while the transport reports
\* has_more = false after finitely many pages, every response can be taken
\* and brings the call one page nearer to its return.
C5_CursorChain ==
    /\ [](CursorChain /\ CanProceed)
    /\ [][WalkEnds => (Variant' < Variant /\ (Variant' = 0 => ppc' = "allDone"))]_vars

\* C5 witness: queryDatabaseAll returned after three fetches that followed
\* two different cursors.
C5_Witness ==
    /\ ppc = "allDone"
    /\ Len(requests) = 3
    /\ requests[2].start_cursor \in Cursors
    /\ requests[3].start_cursor \in Cursors
    /\ requests[2].start_cursor # requests[3].start_cursor

(***************************************************************************)
(* The facade as a whole: one call of any of its methods, on a transport   *)
(* that answers a request or rejects it.                                   *)
(***************************************************************************)
QueryDatabaseNames == {QueryDatabaseName, "NonExistentDatabase"}

\* The transports of the facade's behaviours: every page holds one object,
\* the first page names a second one, which may name a third and last one.
FacadeServers ==
    {s \in [CursorArgs -> PageShapes(<<1>>)] :
        /\ \A c \in CursorArgs : s[c].full = 1 /\ s[c].partial = 0
        /\ s[UndefinedCursor].has_more /\ s[UndefinedCursor].next_cursor = "cursor-1"
        /\ s["cursor-1"].has_more => s["cursor-1"].next_cursor = "cursor-2"
        /\ ~s["cursor-2"].has_more}

InitFacade ==
    /\ qArgs = [page_size |-> <<1>>]
    /\ server \in FacadeServers
    /\ LocalsAtRest
    /\ CrudAtRest
    /\ FilterAtRest
    /\ FnAtRest

\* queryDatabase(databaseName, args), up to its await.
QueryDatabase ==
    \E databaseName \in QueryDatabaseNames, start_cursor \in CursorArgs :
        LET args == [start_cursor |-> start_cursor, page_size |-> qArgs.page_size]
        IN /\ cpc = "idle"
           /\ call' = [method |-> "queryDatabase", databaseName |-> databaseName,
                       args |-> args]
           /\ transportLog' = Append(transportLog, queryRequest(databaseName, args))
           /\ cpc' = "awaitQuery"
           /\ UNCHANGED <<outcome, rejection>>
           /\ UNCHANGED filterVars
           /\ UNCHANGED pageVars
           /\ UNCHANGED fnVars

\* client.databases.query resolves: queryDatabase returns the decoded page.
QueryResolves ==
    /\ cpc = "awaitQuery"
    /\ outcome' = Return(queryResult(call.databaseName,
                                     databasesQuery(transportLog[Len(transportLog)])))
    /\ cpc' = "done"
    /\ UNCHANGED <<call, transportLog, rejection>>
    /\ UNCHANGED filterVars
    /\ UNCHANGED pageVars
    /\ UNCHANGED fnVars

\* getPage(pageId, databaseName), up to its await.
GetPage ==
    \E pageId \in PageIds, databaseName \in DatabaseNameArgs :
        /\ cpc = "idle"
        /\ call' = [method |-> "getPage", pageId |-> pageId,
                    databaseName |-> databaseName]
        /\ transportLog' = Append(transportLog,
                                  [method |-> "pages.retrieve", page_id |-> pageId])
        /\ cpc' = "awaitRetrieve"
        /\ UNCHANGED <<outcome, rejection>>
        /\ UNCHANGED filterVars
        /\ UNCHANGED pageVars
        /\ UNCHANGED fnVars

\* client.pages.retrieve resolves: getPage returns the page with its property
\* bag decoded, or throws when the page has none.
RetrieveResolves ==
    /\ cpc = "awaitRetrieve"
    /\ \E response \in {[id |-> call.pageId, properties |-> ItemBag],
                         [id |-> call.pageId]} :
        outcome' = IF "properties" \in DOMAIN response
                   THEN Return([response EXCEPT
                           !.properties =
                               convertPropertiesFromNotion(call.databaseName, @)])
                   ELSE Throw([name |-> "Error",
                               message |-> <<"Failed to retrieve page properties">>])
    /\ cpc' = "done"
    /\ UNCHANGED <<call, transportLog, rejection>>
    /\ UNCHANGED filterVars
    /\ UNCHANGED pageVars
    /\ UNCHANGED fnVars

\* The fetch of queryDatabaseAll rejects: the call rejects where it awaits.
AllRejects ==
    /\ ppc = "allAwait"
    /\ \E error \in TransportErrors :
        /\ rejection' = error
        /\ pOutcome' = awaitRejected(error)
    /\ ppc' = "allFailed"
    /\ UNCHANGED <<server, qArgs, requests, responses, cursor, hasMore, allResults,
                   page, idx, consumed, requested, stopped>>
    /\ UNCHANGED <<cpc, call, transportLog, outcome>>
    /\ UNCHANGED filterVars
    /\ UNCHANGED fnVars

\* The fetch of the iterator rejects: the generator ends where it awaits, and
\* the consumer's pending next() rejects.
IterRejects ==
    /\ ppc = "itAwait"
    /\ \E error \in TransportErrors :
        /\ rejection' = error
        /\ pOutcome' = awaitRejected(error)
    /\ ppc' = "itFailed"
    /\ UNCHANGED <<server, qArgs, requests, responses, cursor, hasMore, allResults,
                   page, idx, consumed, requested, stopped>>
    /\ UNCHANGED <<cpc, call, transportLog, outcome>>
    /\ UNCHANGED filterVars
    /\ UNCHANGED fnVars

\* One facade call at a time.
NextFacade ==
    \/ ppc = "idle" /\ CreatePage
    \/ ppc = "idle" /\ UpdatePage
    \/ ppc = "idle" /\ DeletePage
    \/ ppc = "idle" /\ PageCallResolves
    \/ ppc = "idle" /\ ArchiveResolves
    \/ ppc = "idle" /\ TransportRejects
    \/ ppc = "idle" /\ QueryDatabase
    \/ ppc = "idle" /\ QueryResolves
    \/ ppc = "idle" /\ GetPage
    \/ ppc = "idle" /\ RetrieveResolves
    \/ cpc = "idle" /\ QueryDatabaseAll
    \/ cpc = "idle" /\ AllResolves
    \/ cpc = "idle" /\ AllRejects
    \/ cpc = "idle" /\ QueryDatabaseIterator
    \/ cpc = "idle" /\ IterNext
    \/ cpc = "idle" /\ IterResolves
    \/ cpc = "idle" /\ IterRejects
    \/ cpc = "idle" /\ IterReturn

SpecFacade == InitFacade /\ [][NextFacade]_vars

(***************************************************************************)
(* Claims about transport failures and unknown database names.             *)
(***************************************************************************)
\* A transport request was rejected, and the facade call that issued it has
\* failed with the error of the rejection itself.
FailedUnwrapped ==
    rejection # NoResult =>
        \/ cpc = "done" /\ outcome = Throw(rejection) /\ ppc = "idle"
        \/ ppc \in {"allFailed", "itFailed"} /\ pOutcome = Throw(rejection) /\ cpc = "idle"

\* C16: when the transport rejects a request of a facade call (createPage,
\* updatePage, deletePage, getPage, queryDatabase, queryDatabaseAll, the
\* iterator),
\* the call fails with the error of the rejection, unwrapped, and no transport
\* request is issued in the step of the rejection or after it.
C16_FailurePropagates ==
    /\ []FailedUnwrapped
    /\ [][rejection' # NoResult =>
            (transportLog' = transportLog /\ requests' = requests)]_vars

\* C16 witness: the second fetch of queryDatabaseAll was rejected after the
\* first page had arrived, and the call failed with that error.
C16_Witness ==
    /\ ppc = "allFailed"
    /\ Len(requests) = 2
    /\ Len(responses) = 1
    /\ rejection \in TransportErrors
    /\ pOutcome = Throw(rejection)

\* A queryDatabase call on a database name the configuration does not hold.
UnknownQuery ==
    /\ call.method = "queryDatabase"
    /\ getDatabaseConfig(call.databaseName) = <<>>

renameProperty_Keep(obj, config) == [obj EXCEPT !.property = config.name]

renameProperty(obj, config) == [obj EXCEPT !.property = config.notionName]

\* Mutant: the children come out in reverse order.
MapOutcome_Reversed(outs, key) ==
    IF \E i \in 1..Len(outs) : outs[i].kind = "throw"
    THEN outs[CHOOSE i \in 1..Len(outs) : outs[i].kind = "throw"]
    ELSE Return([k \in {key} |-> [i \in 1..Len(outs) |-> outs[Len(outs) + 1 - i].value]])

\* array.map(f) where f may throw: the first exception leaves the map.
MapOutcome(outs, key) ==
    IF \E i \in 1..Len(outs) : outs[i].kind = "throw"
    THEN outs[CHOOSE i \in 1..Len(outs) :
                 /\ outs[i].kind = "throw"
                 /\ \A j \in 1..(i - 1) : outs[j].kind # "throw"]
    ELSE Return([k \in {key} |-> [i \in 1..Len(outs) |-> outs[i].value]])

RECURSIVE convertFilterToNotion(_, _)
convertFilterToNotion(databaseName, filterObj) ==
    IF "and" \in DOMAIN filterObj
    THEN MapOutcome([i \in 1..Len(filterObj.and) |->
                        convertFilterToNotion(databaseName, filterObj.and[i])], "and")
    ELSE IF "or" \in DOMAIN filterObj
    THEN MapOutcome([i \in 1..Len(filterObj.or) |->
                        convertFilterToNotion(databaseName, filterObj.or[i])], "or")
    ELSE IF /\ "property" \in DOMAIN filterObj
            /\ FindProperty(databaseName, "name", filterObj.property) # <<>>
    THEN LET config == FindProperty(databaseName, "name", filterObj.property)[1]
         IN IF /\ "status_group" \in DOMAIN filterObj
               /\ config.type = "status"
               /\ "groups" \in DOMAIN config
            THEN convertStatusGroupFilter(filterObj.status_group, config)
            ELSE Return(renameProperty(filterObj, config))
    ELSE Return(filterObj)

convertSortsToNotion(databaseName, sortList) ==
    [i \in 1..Len(sortList) |->
        LET sort == sortList[i]
        IN IF /\ "property" \in DOMAIN sort
              /\ sort.property # ""
              /\ FindProperty(databaseName, "name", sort.property) # <<>>
           THEN renameProperty(sort, FindProperty(databaseName, "name", sort.property)[1])
           ELSE sort]

(***************************************************************************)
(* The filter trees and sorts arrays a caller composes.                    *)
(***************************************************************************)
StatusGroupConditions ==
    {[equals |-> "g1"], [equals |-> UnknownGroup], [does_not_equal |-> "g1"],
     [in_any |-> <<>>], [not_in_any |-> <<"g1", "g2">>], EmptyObject}

FilterLeaves ==
    {[property |-> "title", title |-> [contains |-> "x"]],
     [property |-> "ghost", rich_text |-> [contains |-> "x"]],
     [timestamp |-> "created_time", created_time |-> [after |-> "2024-01-01"]],
     [property |-> "phase", status_group |-> [equals |-> "g1"]],
     [property |-> "ghost", status_group |-> [equals |-> "g1"]]}
    \cup {[property |-> "status", status_group |-> c] : c \in StatusGroupConditions}

\* The leaves that stand beside a subtree in a compound node.
SiblingLeaves ==
    {[property |-> "title", title |-> [contains |-> "x"]],
     [timestamp |-> "created_time", created_time |-> [after |-> "2024-01-01"]],
     [property |-> "status", status_group |-> [equals |-> UnknownGroup]]}

\* Compound nodes with no child, with a subtree of ts as only child, and
\* with a subtree of ts before or after a leaf.
Compounds(ts) ==
    LET lists == {<<>>} \cup {<<t>> : t \in ts}
                 \cup {<<t, l>> : t \in ts, l \in SiblingLeaves}
                 \cup {<<l, t>> : t \in ts, l \in SiblingLeaves}
    IN {[and |-> c] : c \in lists} \cup {[or |-> c] : c \in lists}

\* The filter trees with compound nodes nested up to depth d.
RECURSIVE FilterTrees(_)
FilterTrees(d) ==
    IF d = 0 THEN FilterLeaves
    ELSE FilterTrees(d - 1) \cup Compounds(FilterTrees(d - 1))

SortEntries ==
    {[property |-> n, direction |-> "ascending"] : n \in {"title", "ghost"}}
    \cup {[property |-> "status", direction |-> "descending"],
          [timestamp |-> "created_time", direction |-> "descending"]}

TranslateDatabaseNames == {"projects", "NonExistentDatabase"}

InitTranslate ==
    /\ fnpc = "ready"
    /\ fnArgs \in
          {[fn |-> "convertFilterToNotion", databaseName |-> "projects", filter |-> f] :
              f \in FilterTrees(MaxDepth)}
          \cup {[fn |-> "convertFilterToNotion", databaseName |-> "NonExistentDatabase",
                 filter |-> f] : f \in FilterTrees(1)}
          \cup {[fn |-> "convertSortsToNotion", databaseName |-> n, sorts |-> so] :
              n \in TranslateDatabaseNames, so \in SeqsUpTo(SortEntries, MaxSorts)}
    /\ fnResult = NoResult
    /\ CrudAtRest
    /\ FilterAtRest
    /\ PageAtRest

ConvertFilterToNotion ==
    /\ fnpc = "ready"
    /\ fnArgs.fn = "convertFilterToNotion"
    /\ fnResult' = convertFilterToNotion(fnArgs.databaseName, fnArgs.filter)
    /\ fnpc' = "done"
    /\ UNCHANGED fnArgs
    /\ UNCHANGED <<filterVars, crudVars, pageVars>>

ConvertSortsToNotion ==
    /\ fnpc = "ready"
    /\ fnArgs.fn = "convertSortsToNotion"
    /\ fnResult' = Return(convertSortsToNotion(fnArgs.databaseName, fnArgs.sorts))
    /\ fnpc' = "done"
    /\ UNCHANGED fnArgs
    /\ UNCHANGED <<filterVars, crudVars, pageVars>>

NextTranslate == ConvertFilterToNotion \/ ConvertSortsToNotion

SpecTranslate == InitTranslate /\ [][NextTranslate]_vars

(***************************************************************************)
(* Claims about filter and sort translation.                               *)
(***************************************************************************)
FnDone(fn) == fnpc = "done" /\ fnArgs.fn = fn

StatusGroupOperations ==
    {"equals", "does_not_equal", "in_any", "not_in_any", "is_empty", "is_not_empty"}

\* The tree is one of the filter grammar: every status_group condition has
\* one of the grammar's operations.
RECURSIVE InGrammar(_)
InGrammar(f) ==
    IF "and" \in DOMAIN f THEN \A i \in 1..Len(f.and) : InGrammar(f.and[i])
    ELSE IF "or" \in DOMAIN f THEN \A i \in 1..Len(f.or) : InGrammar(f.or[i])
    ELSE IF "status_group" \in DOMAIN f
    THEN /\ DOMAIN f.status_group # {}
         /\ DOMAIN f.status_group \subseteq StatusGroupOperations
    ELSE TRUE

\* C11: translating a filter tree of the grammar, whatever its depth, its
\* logical names, its group names and its group lists, returns a wire filter
\* and does not throw.
C11_TranslationTotal ==
    (FnDone("convertFilterToNotion") /\ InGrammar(fnArgs.filter))
        => fnResult.kind = "return"

\* C11 witness: a tree two compounds deep with an empty group list and an
\* unknown group name was translated.
C11_Witness ==
    /\ FnDone("convertFilterToNotion")
    /\ fnArgs.databaseName = "projects"
    /\ fnArgs.filter =
          [and |-> <<[or |-> <<[property |-> "status",
                               status_group |-> [in_any |-> <<>>]]>>],
                     [property |-> "status",
                      status_group |-> [equals |-> UnknownGroup]]>>]
    /\ fnResult.kind = "return"

\* The wire names the schema maps a logical name of a database to.
WireNames(databaseName, logicalName) ==
    {q.notionName : q \in {r \in UNION {Range(d.properties) :
                                   d \in {e \in Range(Databases) : e.name = databaseName}} :
                              r.name = logicalName}}

\* out is in with its property replaced by the wire name when there is one,
\* and is in otherwise.
EntryRenamed(databaseName, in, out) ==
    IF "property" \in DOMAIN in /\ WireNames(databaseName, in.property) # {}
    THEN /\ DOMAIN out = DOMAIN in
         /\ out.property \in WireNames(databaseName, in.property)
         /\ \A k \in DOMAIN in \ {"property"} : out[k] = in[k]
    ELSE out = in

\* Every leaf of in without a status_group condition is renamed in out, and
\* the compound nodes are kept.
RECURSIVE FilterRenamed(_, _, _)
FilterRenamed(databaseName, in, out) ==
    IF "and" \in DOMAIN in
    THEN /\ DOMAIN out = {"and"}
         /\ Len(out.and) = Len(in.and)
         /\ \A i \in 1..Len(in.and) : FilterRenamed(databaseName, in.and[i], out.and[i])
    ELSE IF "or" \in DOMAIN in
    THEN /\ DOMAIN out = {"or"}
         /\ Len(out.or) = Len(in.or)
         /\ \A i \in 1..Len(in.or) : FilterRenamed(databaseName, in.or[i], out.or[i])
    ELSE IF "status_group" \in DOMAIN in THEN TRUE
    ELSE EntryRenamed(databaseName, in, out)

RECURSIVE HasStatusGroup(_)
HasStatusGroup(f) ==
    IF "and" \in DOMAIN f THEN \E i \in 1..Len(f.and) : HasStatusGroup(f.and[i])
    ELSE IF "or" \in DOMAIN f THEN \E i \in 1..Len(f.or) : HasStatusGroup(f.or[i])
    ELSE "status_group" \in DOMAIN f

\* C12: a filter leaf with an ordinary condition and a property-keyed sort
\* entry come out with the wire name for a mapped logical name and the rest
\* unchanged, and come out unchanged for an unmapped name or a timestamp
\* key; the translation does not throw; sorts keep their number and order.
C12_NameRewriting ==
    /\ FnDone("convertFilterToNotion") =>
          /\ ~HasStatusGroup(fnArgs.filter) => fnResult.kind = "return"
          /\ fnResult.kind = "return" =>
                FilterRenamed(fnArgs.databaseName, fnArgs.filter, fnResult.value)
    /\ FnDone("convertSortsToNotion") =>
          /\ fnResult.kind = "return"
          /\ Len(fnResult.value) = Len(fnArgs.sorts)
          /\ \A i \in 1..Len(fnArgs.sorts) :
                EntryRenamed(fnArgs.databaseName, fnArgs.sorts[i], fnResult.value[i])

\* C12 witness: a compound of an unmapped and a mapped leaf was translated,
\* the mapped one renamed.
C12_Witness ==
    /\ FnDone("convertFilterToNotion")
    /\ fnArgs.databaseName = "projects"
    /\ fnArgs.filter = [and |-> <<[property |-> "ghost", rich_text |-> [contains |-> "x"]],
                                  [property |-> "title", title |-> [contains |-> "x"]]>>]
    /\ fnResult = Return([and |-> <<[property |-> "ghost", rich_text |-> [contains |-> "x"]],
                                    [property |-> "Title", title |-> [contains |-> "x"]]>>])

\* C22 as stated: the translated filter holds no status_group key at any
\* depth.
C22_Original ==
    (FnDone("convertFilterToNotion") /\ fnResult.kind = "return")
        => ~HasStatusGroup(fnResult.value)

\* The leaf names a status property of the database that has a group catalog.
HasGroupCatalog(databaseName, leaf) ==
    \E d \in Range(Databases) :
        /\ d.name = databaseName
        /\ \E q \in Range(d.properties) :
              /\ q.name = leaf.property
              /\ q.type = "status"
              /\ "groups" \in DOMAIN q

\* Every leaf of out is an ordinary condition on the status key.
RECURSIVE OnlyStatusLeaves(_)
OnlyStatusLeaves(f) ==
    IF "and" \in DOMAIN f THEN \A i \in 1..Len(f.and) : OnlyStatusLeaves(f.and[i])
    ELSE IF "or" \in DOMAIN f THEN \A i \in 1..Len(f.or) : OnlyStatusLeaves(f.or[i])
    ELSE DOMAIN f = {"property", "status"}

\* At the place of every status_group leaf of in, out holds ordinary status
\* conditions when the leaf names a status property with a group catalog, and
\* the status_group condition itself otherwise.
RECURSIVE GroupsReplaced(_, _, _)
GroupsReplaced(databaseName, in, out) ==
    IF "and" \in DOMAIN in
    THEN /\ DOMAIN out = {"and"}
         /\ Len(out.and) = Len(in.and)
         /\ \A i \in 1..Len(in.and) : GroupsReplaced(databaseName, in.and[i], out.and[i])
    ELSE IF "or" \in DOMAIN in
    THEN /\ DOMAIN out = {"or"}
         /\ Len(out.or) = Len(in.or)
         /\ \A i \in 1..Len(in.or) : GroupsReplaced(databaseName, in.or[i], out.or[i])
    ELSE IF "status_group" \notin DOMAIN in THEN ~HasStatusGroup(out)
    ELSE IF HasGroupCatalog(databaseName, in) THEN OnlyStatusLeaves(out)
    ELSE /\ "status_group" \in DOMAIN out
         /\ out.status_group = in.status_group

\* C22 as amended: a status_group condition is replaced by ordinary status
\* conditions, at every depth, when its property is a status property of the
\* database with configured groups; a status_group condition on any other
\* property (not configured, configured without groups, unknown database) is
\* handed on with its status_group key.
C22_GroupsReplaced ==
    (FnDone("convertFilterToNotion") /\ fnResult.kind = "return")
        => GroupsReplaced(fnArgs.databaseName, fnArgs.filter, fnResult.value)

\* C22 witness: of two status_group leaves under one AND, the one on the
\* property without groups kept its condition and the other was expanded.
C22_Witness ==
    /\ FnDone("convertFilterToNotion")
    /\ fnArgs.databaseName = "projects"
    /\ fnArgs.filter =
          [and |-> <<[property |-> "phase", status_group |-> [equals |-> "g1"]],
                     [property |-> "status",
                      status_group |-> [equals |-> UnknownGroup]]>>]
    /\ fnResult.kind = "return"
    /\ HasStatusGroup(fnResult.value.and[1])
    /\ IsSentinel(fnResult.value.and[2])

\* out is a compound node of the kind of in whose children are, in order,
\* the translations of the children of in, and so at every depth.
RECURSIVE ShapePreserved(_, _, _)
ShapePreserved(databaseName, in, out) ==
    LET kind == IF "and" \in DOMAIN in THEN "and"
                ELSE IF "or" \in DOMAIN in THEN "or" ELSE "leaf"
    IN kind # "leaf" =>
          /\ DOMAIN out = {kind}
          /\ Len(out[kind]) = Len(in[kind])
          /\ \A i \in 1..Len(in[kind]) :
                /\ out[kind][i] = convertFilterToNotion(databaseName, in[kind][i]).value
                /\ ShapePreserved(databaseName, in[kind][i], out[kind][i])

\* C23: the translation of a compound node is a node of the same kind with
\* as many children, in the same order, each the translation of the
\* corresponding child, at every nesting depth.
C23_CompoundShape ==
    (FnDone("convertFilterToNotion") /\ fnResult.kind = "return")
        => ShapePreserved(fnArgs.databaseName, fnArgs.filter, fnResult.value)

\* C23 witness: an OR of a leaf and an AND was translated; the leaf came out
\* first and renamed, the AND second with its one child expanded.
C23_Witness ==
    /\ FnDone("convertFilterToNotion")
    /\ fnArgs.databaseName = "projects"
    /\ fnArgs.filter =
          [or |-> <<[property |-> "title", title |-> [contains |-> "x"]],
                    [and |-> <<[property |-> "status",
                                status_group |-> [equals |-> "g1"]]>>]>>]
    /\ fnResult.kind = "return"
    /\ fnResult.value.or[1] = [property |-> "Title", title |-> [contains |-> "x"]]
    /\ DOMAIN fnResult.value.or[2] = {"and"}
    /\ Len(fnResult.value.or[2].and) = 1

(***************************************************************************)
(* The property codec applied on its own: convertPropertyToNotion, and     *)
(* convertPropertyFromNotion on its result or on a wire value.             *)
(***************************************************************************)
WritableTypes ==
    {"title", "rich_text", "number", "select", "status", "multi_select", "date",
     "people", "files", "checkbox", "url", "email", "phone_number", "relation"}

ReadOnlyTypes ==
    {"created_time", "created_by", "last_edited_time", "last_edited_by", "formula",
     "rollup", "unique_id"}

ListTypes == {"multi_select", "people", "files", "relation"}

\* The property configs the codec is applied with: one per type, and for
\* status one with groups and one without.
CodecConfigs ==
    {[name |-> "field", notionName |-> "Field", type |-> t] :
        t \in (WritableTypes \cup ReadOnlyTypes) \ {"status"}}
    \cup {q \in Range(ProjectsConfig.properties) : q.type = "status"}
    \cup {[name |-> "state", notionName |-> "State", type |-> "status",
           options |-> OptionsOf(3, 0), groups |-> <<>>]}

\* The wire values of a status property with a value: the option's id, name
\* and colour.  "opt-9" is an option no group of a config lists.
StatusWires ==
    {[id |-> Str("prop-id"), type |-> Str("status"),
      status |-> [id |-> Str(i), name |-> Str("o"), color |-> Str("blue")]] :
        i \in {"opt-1", "opt-2", "opt-3", "opt-9"}}

\* Representative non-null values of a property of each writable type.
DomainValues(type) ==
    CASE type \in {"title", "rich_text"} -> {Str("A"), Str("")}
      [] type = "number" -> {Num(1), Num(0)}
      [] type = "select" -> {Str("o1")}
      [] type = "status" -> {Str("o1"), [name |-> Str("o1"), group |-> Str("g1")]}
      [] type = "multi_select" -> {Arr(<<>>), Arr(<<Str("o1"), Str("o2")>>)}
      [] type = "date" -> {[start |-> Str("2024-01-01")],
                           [start |-> Str("2024-01-01"), end |-> Str("2024-01-02")]}
      [] type = "people" -> {Arr(<<>>), Arr(<<Str("user-1")>>)}
      [] type = "files" ->
            {Arr(<<>>), Arr(<<[name |-> Str("f.txt"), url |-> Str("https://x/f.txt")]>>)}
      [] type = "checkbox" -> {Bool(TRUE), Bool(FALSE)}
      [] type = "url" -> {Str("https://x")}
      [] type = "email" -> {Str("a@x")}
      [] type = "phone_number" -> {Str("555")}
      [] type = "relation" -> {Arr(<<Str("page-1"), Str("page-2")>>)}
      [] OTHER -> {}

\* A wire property object of the type that carries no value.
EmptyWire(type) ==
    CASE type \in {"title", "rich_text"} -> [k \in {type} |-> <<>>]
      [] type \in ListTypes -> [k \in {type} |-> Arr(<<>>)]
      [] type = "checkbox" -> [checkbox |-> Bool(FALSE)]
      [] OTHER -> [k \in {type} |-> JsNull]

\* Wire values without a value: null, absent (undefined), a property object
\* with an empty value, and a property object without its typed key.
ValuelessWires(type) ==
    {JsNull, JsUndefined, EmptyWire(type), [id |-> Str("prop-id")]}

InitCodec ==
    /\ fnpc = "ready"
    /\ fnArgs \in
          {[fn |-> "convertPropertyToNotion", config |-> c, value |-> v] :
              c \in CodecConfigs, v \in {JsNull, JsUndefined}}
          \cup UNION {{[fn |-> "convertPropertyToNotion", config |-> c, value |-> v] :
                          v \in DomainValues(c.type)} : c \in CodecConfigs}
          \cup UNION {{[fn |-> "convertPropertyFromNotion", config |-> c, value |-> w] :
                          w \in ValuelessWires(c.type)} : c \in CodecConfigs}
          \cup {[fn |-> "convertPropertyFromNotion", config |-> c, value |-> w] :
                   c \in {q \in CodecConfigs : q.type = "status"}, w \in StatusWires}
    /\ fnResult = NoResult
    /\ CrudAtRest
    /\ FilterAtRest
    /\ PageAtRest

\* encode: the value of a payload field to its wire value.
ConvertPropertyToNotion ==
    /\ fnpc = "ready"
    /\ fnArgs.fn = "convertPropertyToNotion"
    /\ fnResult' = Return(convertPropertyToNotion(fnArgs.config, fnArgs.value))
    /\ fnpc' = "encoded"
    /\ UNCHANGED fnArgs
    /\ UNCHANGED <<filterVars, crudVars, pageVars>>

\* decode: a wire value, given or just encoded, to the value of a field.
ConvertPropertyFromNotion ==
    /\ \/ fnpc = "ready" /\ fnArgs.fn = "convertPropertyFromNotion"
       \/ fnpc = "encoded"
    /\ fnResult' = Return(convertPropertyFromNotion(fnArgs.config,
                              IF fnpc = "encoded" THEN fnResult.value ELSE fnArgs.value))
    /\ fnpc' = "done"
    /\ UNCHANGED fnArgs
    /\ UNCHANGED <<filterVars, crudVars, pageVars>>

NextCodec == ConvertPropertyToNotion \/ ConvertPropertyFromNotion

SpecCodec == InitCodec /\ [][NextCodec]_vars

(***************************************************************************)
(* Claims about the codec.                                                 *)
(***************************************************************************)
\* A value was encoded and the result decoded.
RoundTripDone ==
    /\ FnDone("convertPropertyToNotion")
    /\ fnArgs.value \in DomainValues(fnArgs.config.type)

\* C13, as stated: for every writable type and every representative
\* non-null value v of it, decoding the encoding of v gives v.
C13_RoundTrip == RoundTripDone => fnResult = Return(fnArgs.value)

\* The empty value of a type: null for scalars, an empty array for list
\* types, false for checkbox.
EmptyValue(type) ==
    IF type \in ListTypes THEN Arr(<<>>)
    ELSE IF type = "checkbox" THEN Bool(FALSE)
    ELSE JsNull

\* C15, as stated: decoding an absent or null wire value gives the empty
\* value of the type.
C15_EmptyDecode ==
    (FnDone("convertPropertyFromNotion") /\ fnArgs.value \in {JsNull, JsUndefined})
        => fnResult = Return(EmptyValue(fnArgs.config.type))

(***************************************************************************)
(* Claims about the payload of createPage and updatePage.                  *)
(***************************************************************************)
PayloadCall == call.method \in {"createPage", "updatePage"}

\* The transport requests of the call that carry a property bag.
PropertyRequests == {i \in 1..Len(transportLog) : "properties" \in DOMAIN transportLog[i]}

\* C14, as stated: a payload field whose value is null or undefined has its
\* wire name absent from the keys of every outgoing property bag.
C14_NullOmitted ==
    PayloadCall =>
        \A i \in PropertyRequests : \A k \in DOMAIN call.properties :
            call.properties[k] \in {JsNull, JsUndefined} =>
                WireNames(call.databaseName, k) \cap DOMAIN transportLog[i].properties = {}

\* The payload fields of the call that name a property of a read-only type.
ReadOnlyFields ==
    {k \in DOMAIN call.properties :
        \E d \in Range(Databases) : \E q \in Range(d.properties) :
            d.name = call.databaseName /\ q.name = k /\ q.type \in ReadOnlyTypes}

\* C18: no property of a read-only type is in the create or the update
\* schema; a createPage or updatePage payload with a field of a read-only
\* type fails validation; and no outgoing property bag has the wire name of a
\* read-only property as a key.
C18_ReadOnlyExcluded ==
    /\ \A c \in CodecConfigs :
          c.type \in ReadOnlyTypes <=> generateCreatePropertySchema(c) = <<>>
    /\ \A d \in Range(Databases) : \A q \in Range(d.properties) :
          q.type \in ReadOnlyTypes =>
             /\ q.name \notin DOMAIN generateCreateSchema(d).properties
             /\ q.name \notin DOMAIN generateUpdateSchema(d).properties
    /\ PayloadCall =>
          /\ ReadOnlyFields # {} =>
                /\ FailsValidation(call)
                /\ outcome.kind = "throw"
                /\ transportLog = <<>>
          /\ \A i \in PropertyRequests : \A d \in Range(Databases) :
                \A q \in Range(d.properties) :
                   (d.name = call.databaseName /\ q.type \in ReadOnlyTypes)
                      => q.notionName \notin DOMAIN transportLog[i].properties

\* C18 witness: a createPage payload with a title and a created-time field
\* was refused.
C18_Witness ==
    /\ cpc = "done"
    /\ call.method = "createPage"
    /\ call.databaseName = "tasks"
    /\ DOMAIN call.properties = {"title", "createdAt"}
    /\ call.properties.title = Str("A")
    /\ outcome.kind = "throw"
    /\ transportLog = <<>>

(***************************************************************************)
(* Schema resolution: NotionFetcher.resolveProperties and extractOptions.  *)
(* A nullable string (id, type) is Str(...) or JsNull; names are strings.  *)
(***************************************************************************)
\* Object.values(schemaProperties).find(p => p.id === config.id), then
\* Object.entries(schemaProperties).find(([name]) => name === notionName):
\* the index of the entry found, 0 when there is none.  schemaProperties is
\* the sequence of its entries [name, schema].
FindSchema(config, schemaProperties) ==
    LET byId == {i \in 1..Len(schemaProperties) :
                    schemaProperties[i].schema.id = config.id}
        byName == {i \in 1..Len(schemaProperties) :
                      schemaProperties[i].name = config.notionName}
    IN IF Truthy(config.id) /\ byId # {}
       THEN CHOOSE i \in byId : \A j \in byId : i <= j
       ELSE IF byName # {} THEN CHOOSE i \in byName : \A j \in byName : i <= j
       ELSE 0

extractOptions(propertySchema) ==
    IF "select" \in DOMAIN propertySchema /\ "options" \in DOMAIN propertySchema.select
    THEN propertySchema.select.options
    ELSE IF /\ "multi_select" \in DOMAIN propertySchema
            /\ "options" \in DOMAIN propertySchema.multi_select
    THEN propertySchema.multi_select.options
    ELSE IF "status" \in DOMAIN propertySchema /\ "options" \in DOMAIN propertySchema.status
    THEN propertySchema.status.options
    ELSE JsUndefined

\* What one config contributes to the resolved list: one entry, or none.
resolveProperty(config, schemaProperties) ==
    LET found == FindSchema(config, schemaProperties)
    IN IF found # 0
       THEN LET propertySchema == schemaProperties[found].schema
            IN <<[id |-> Or(propertySchema.id, Str("")),
                  name |-> config.name,
                  displayName |-> config.displayName,
                  notionName |-> config.notionName,
                  type |-> propertySchema.type,
                  options |-> extractOptions(propertySchema)]>>
       ELSE IF Truthy(config.type)
       THEN <<[id |-> Or(config.id, Str("")),
               name |-> config.name,
               displayName |-> config.displayName,
               notionName |-> config.notionName,
               type |-> config.type]>>
       ELSE <<>>

RECURSIVE resolveProperties(_, _)
resolveProperties(configs, schemaProperties) ==
    IF configs = <<>> THEN <<>>
    ELSE resolveProperty(configs[1], schemaProperties)
         \o resolveProperties(Tail(configs), schemaProperties)

\* The property configs of the user's configuration file.
ConfigEntries ==
    {[id |-> i, name |-> "state", displayName |-> "State", notionName |-> n, type |-> t] :
        i \in {JsNull, Str("prop-1")},
        n \in {"State", "Missing"},
        t \in {JsNull, Str("status"), Str("select")}}

\* The property schemas the database reports.
CatalogOptions == Arr(<<[id |-> "opt-1", name |-> "o1"], [id |-> "opt-2", name |-> "o2"]>>)

CatalogGroups == Arr(<<[name |-> "g1", option_ids |-> <<"opt-1", "opt-2">>]>>)

SchemaPropertySets ==
    {<<>>,
     <<[name |-> "State",
        schema |-> [id |-> Str("prop-1"), type |-> Str("status"),
                    status |-> [options |-> CatalogOptions, groups |-> CatalogGroups]]]>>,
     <<[name |-> "State",
        schema |-> [id |-> Str("prop-1"), type |-> Str("select"),
                    select |-> [options |-> CatalogOptions]]]>>,
     <<[name |-> "Renamed",
        schema |-> [id |-> Str("prop-1"), type |-> Str("multi_select"),
                    multi_select |-> [options |-> Arr(<<>>)]]]>>}

InitResolve ==
    /\ fnpc = "ready"
    /\ fnArgs \in {[fn |-> "resolveProperties", configs |-> c, schemaProperties |-> sp] :
                      c \in SeqsUpTo(ConfigEntries, MaxConfigs), sp \in SchemaPropertySets}
    /\ fnResult = NoResult
    /\ CrudAtRest
    /\ FilterAtRest
    /\ PageAtRest

ResolveProperties ==
    /\ fnpc = "ready"
    /\ fnArgs.fn = "resolveProperties"
    /\ fnResult' = Return(resolveProperties(fnArgs.configs, fnArgs.schemaProperties))
    /\ fnpc' = "done"
    /\ UNCHANGED fnArgs
    /\ UNCHANGED <<filterVars, crudVars, pageVars>>

NextResolve == ResolveProperties

SpecResolve == InitResolve /\ [][NextResolve]_vars

(***************************************************************************)
(* Claims about schema resolution.                                         *)
(***************************************************************************)
\* The entry has an option catalog / a group catalog: an array under the key.
HasCatalog(entry, key) == key \in DOMAIN entry /\ IsArray(entry[key])

\* C19, as stated: every property of a resolved schema has a non-null wire
\* name and a non-null type, an option catalog when it is a select, a
\* multi-select or a status, and a group catalog when it is a status.
C19_ResolvedCatalogs ==
    FnDone("resolveProperties") =>
        \A i \in 1..Len(fnResult.value) :
            LET entry == fnResult.value[i]
            IN /\ entry.notionName # ""
               /\ Truthy(entry.type)
               /\ entry.type \in {Str("select"), Str("multi_select"), Str("status")}
                     => HasCatalog(entry, "options")
               /\ entry.type = Str("status") => HasCatalog(entry, "groups")

(***************************************************************************)
(* Claims about the decoding of status values.                             *)
(***************************************************************************)
\* A wire status value with an option was decoded.
StatusDecoded ==
    /\ FnDone("convertPropertyFromNotion")
    /\ fnArgs.config.type = "status"
    /\ fnArgs.value \in StatusWires

\* The names of the groups of the config whose option ids hold the id.
GroupsHolding(config, id) ==
    {Str(g.name) : g \in {h \in Range(config.groups) :
                             \E k \in 1..Len(h.option_ids) : Str(h.option_ids[k]) = id}}

\* C24: decoding a status wire value under a config with status groups gives
\* the wire option with a group field, which names the group whose option
\* ids hold the option's id (and is undefined when no group holds it); under
\* a config with no groups it gives the wire option itself, without a group
\* field.
C24_StatusGroupDecoded ==
    StatusDecoded =>
        LET config == fnArgs.config
            option == fnArgs.value.status
            decoded == fnResult.value
        IN /\ fnResult.kind = "return"
           /\ IF "groups" \in DOMAIN config /\ config.groups # <<>>
              THEN /\ DOMAIN decoded = DOMAIN option \cup {"group"}
                   /\ \A k \in DOMAIN option : decoded[k] = option[k]
                   /\ IF GroupsHolding(config, option.id) = {}
                      THEN decoded.group = JsUndefined
                      ELSE GroupsHolding(config, option.id) = {decoded.group}
              ELSE /\ decoded = option
                   /\ "group" \notin DOMAIN decoded

\* C24 witness: the option opt-3 of the second group was decoded with the
\* group g2.
C24_Witness ==
    /\ StatusDecoded
    /\ "groups" \in DOMAIN fnArgs.config
    /\ fnArgs.value.status.id = Str("opt-3")
    /\ fnResult.value.group = Str("g2")
    /\ fnResult.value.name = Str("o")

(***************************************************************************)
(* The codec of property bags applied on its own:                          *)
(* convertPropertiesToNotion and convertPropertiesFromNotion.              *)
(***************************************************************************)
\* The wire value the transport lists under each wire name; "Ghost" is a
\* property of the remote database that the configuration does not hold.
WireBag ==
    [Title |-> [title |-> <<[text |-> [content |-> Str("A")]]>>],
     Priority |-> [number |-> Num(1)],
     Created |-> [created_time |-> Str("2024-01-01T00:00:00.000Z")],
     Ghost |-> [rich_text |-> <<>>]]

WireBags == {[n \in K |-> WireBag[n]] : K \in SUBSET DOMAIN WireBag}

InitBag ==
    /\ fnpc = "ready"
    /\ fnArgs \in
          {[fn |-> "convertPropertiesToNotion", databaseName |-> d, properties |-> p] :
              d \in DatabaseNameArgs, p \in Payloads}
          \cup {[fn |-> "convertPropertiesFromNotion", databaseName |-> d,
                 properties |-> b] : d \in DatabaseNameArgs, b \in WireBags}
    /\ fnResult = NoResult
    /\ CrudAtRest
    /\ FilterAtRest
    /\ PageAtRest

ConvertPropertiesToNotion ==
    /\ fnpc = "ready"
    /\ fnArgs.fn = "convertPropertiesToNotion"
    /\ fnResult' = Return(convertPropertiesToNotion(fnArgs.databaseName,
                                                    fnArgs.properties))
    /\ fnpc' = "done"
    /\ UNCHANGED fnArgs
    /\ UNCHANGED <<filterVars, crudVars, pageVars>>

ConvertPropertiesFromNotion ==
    /\ fnpc = "ready"
    /\ fnArgs.fn = "convertPropertiesFromNotion"
    /\ fnResult' = Return(convertPropertiesFromNotion(fnArgs.databaseName,
                                                      fnArgs.properties))
    /\ fnpc' = "done"
    /\ UNCHANGED fnArgs
    /\ UNCHANGED <<filterVars, crudVars, pageVars>>

NextBag == ConvertPropertiesToNotion \/ ConvertPropertiesFromNotion

SpecBag == InitBag /\ [][NextBag]_vars

(***************************************************************************)
(* Claims about fields without a mapping.                                  *)
(***************************************************************************)
\* The configured properties of the database ({} when it is not configured).
ConfiguredProperties(databaseName) ==
    UNION {Range(d.properties) : d \in {e \in Range(Databases) : e.name = databaseName}}

\* C25: encoding a payload and decoding a property bag return, whatever
\* fields they are given; the encoded bag has exactly the wire names of the
\* payload's configured fields, and the decoded object exactly the logical
\* names of the bag's configured properties: a field without a mapping is
\* dropped.
C25_UnmappedDropped ==
    /\ FnDone("convertPropertiesToNotion") =>
          /\ fnResult.kind = "return"
          /\ DOMAIN fnResult.value =
                {q.notionName : q \in {r \in ConfiguredProperties(fnArgs.databaseName) :
                                          r.name \in DOMAIN fnArgs.properties}}
    /\ FnDone("convertPropertiesFromNotion") =>
          /\ fnResult.kind = "return"
          /\ DOMAIN fnResult.value =
                {q.name : q \in {r \in ConfiguredProperties(fnArgs.databaseName) :
                                    r.notionName \in DOMAIN fnArgs.properties}}

\* C25 witness: a payload with a configured and an unconfigured field was
\* encoded to a bag with the configured field's wire name alone.
C25_Witness ==
    /\ FnDone("convertPropertiesToNotion")
    /\ fnArgs.databaseName = "tasks"
    /\ DOMAIN fnArgs.properties = {"title", "ghost"}
    /\ fnArgs.properties.ghost = Str("A")
    /\ DOMAIN fnResult.value = {"Title"}

(***************************************************************************)
(* Claims about the fetches of one pagination call.                        *)
(***************************************************************************)
\* At most one fetch awaits its response, and the call is then suspended at
\* its await.
OneInFlight ==
    /\ Len(requests) <= Len(responses) + 1
    /\ InFlight => ppc \in {"allAwait", "itAwait"}

\* C26: within one queryDatabaseAll call or one queryDatabaseIterator
\* sequence at most one databases.query call awaits its response, and a
\* step issues at most one fetch, and only when every fetch issued before has
\* been answered by the end of that step.
C26_OneFetchInFlight ==
    /\ []OneInFlight
    /\ [][requests' # requests =>
            /\ Len(requests') = Len(requests) + 1
            /\ Len(responses') = Len(requests)]_vars

\* C26 witness: the iterator's third fetch is in flight after its first two
\* were answered.
C26_Witness ==
    /\ ppc = "itAwait"
    /\ Len(requests) = 3
    /\ Len(responses) = 2

\* The loop both calls share, as a function of the transport: the requests
\* it issues from start_cursor on and the items of the pages it takes, until
\* a page reports has_more = false or `fuel' fetches were made.
RECURSIVE walk(_, _)
walk(start_cursor, fuel) ==
    LET request == queryRequest(QueryDatabaseName, pagedArgs(qArgs, start_cursor))
        response == queryResult(QueryDatabaseName, databasesQuery(request))
    IN IF ~response.has_more
       THEN [items |-> response.results, requests |-> <<request>>]
       ELSE IF fuel <= 1
       THEN [items |-> response.results \o <<Unfinished>>, requests |-> <<request>>]
       ELSE LET rest == walk(NextCursor(response.next_cursor), fuel - 1)
            IN [items |-> response.results \o rest.items,
                requests |-> <<request>> \o rest.requests]

LoopWentOn ==
    /\ Len(responses) >= 1
    /\ LastResponse.has_more
    /\ ppc # "itYield"
    /\ ~stopped

\* Every fetch after the first follows a response with has_more = true and
\* carries that response's next cursor, no cursor when that is null.
FetchesFollow ==
    \A i \in 2..Len(requests) :
        /\ responses[i - 1].has_more
        /\ SameCursor(requests[i].start_cursor, responses[i - 1].next_cursor)
        /\ responses[i - 1].next_cursor = NullCursor => requests[i] = requests[1]

\* C28: once queryDatabaseAll has taken a response with has_more = true, and
\* once the iterator has passed its yields of such a response without being
\* left by the consumer, a further fetch is in flight whether or not the
\* response named a next cursor; the fetch carries that cursor, and when the
\* cursor is null it carries none and is the request of the first page again.
C28_FetchOnHasMore ==
    /\ [](LoopWentOn => (InFlight /\ ppc \in {"allAwait", "itAwait"}))
    /\ []FetchesFollow
    /\ [][(ppc = "itYield" /\ idx = Len(page) /\ LastResponse.has_more
             /\ requested' # requested)
           => (InFlight' /\ ppc' = "itAwait")]_vars

\* C28 witness: the first response held an item, has_more = true and a null
\* next cursor, and the iterator, asked for a second item, has the request of
\* the first page in flight again.
C28_Witness ==
    /\ ppc = "itAwait"
    /\ Len(requests) = 2
    /\ Len(responses) = 1
    /\ Len(consumed) = 1
    /\ responses[1].has_more
    /\ responses[1].next_cursor = NullCursor
    /\ requests[2].start_cursor = UndefinedCursor
    /\ requests[2] = requests[1]

(***************************************************************************)
(* Claims about the validators and the responses of createPage and         *)
(* updatePage.                                                             *)
(***************************************************************************)
\* The call names a database the generated client holds no validators for.
Unregistered(c) ==
    /\ c.method \in {"createPage", "updatePage"}
    /\ c.databaseName \notin {d.name : d \in Range(Databases)}

\* The call failed with the error of the validation step.
ValidationThrown ==
    /\ outcome.kind = "throw"
    /\ outcome.error.name = "Error"
    /\ outcome.error.message[1] = "Validation failed: "

\* The one transport call of a createPage / updatePage call carries the
\* encoded payload of the call.
SentEncoded(c) ==
    /\ Len(transportLog) = 1
    /\ transportLog[1].method =
          (IF c.method = "createPage" THEN "pages.create" ELSE "pages.update")
    /\ transportLog[1].properties =
          convertPropertiesToNotion(c.databaseName, c.properties)

\* C29: a createPage or updatePage call fails in its validation step only
\* when a validator is registered for its database and mode and refuses the
\* payload; a call on a database without a validator is not validated and
\* issues its transport call with the encoded payload.
C29_ValidatorOptional ==
    /\ ValidationThrown => FailsValidation(call)
    /\ Unregistered(call) => (~ValidationThrown /\ SentEncoded(call))

\* C29 witness: createPage on a database without a validator, with a payload
\* no validator of the client accepts, sent its encoded payload and returned.
C29_Witness ==
    /\ cpc = "done"
    /\ call.method = "createPage"
    /\ call.databaseName = "NonExistentDatabase"
    /\ DOMAIN call.properties = {"ghost"}
    /\ outcome.kind = "return"
    /\ Len(transportLog) = 1
    /\ DOMAIN transportLog[1].properties = {}

\* The call failed with the error raised for a response without properties.
PartialThrown ==
    /\ outcome.kind = "throw"
    /\ outcome.error \in {PartialResponseError("create"), PartialResponseError("update")}

\* While createPage / updatePage awaits its transport call: a response
\* without a property bag makes the call raise the partial-response error of
\* its own operation.
PartialRaises ==
    cpc \in {"awaitCreate", "awaitUpdate"} =>
        \A response \in {r \in PageResponses(transportLog[Len(transportLog)]) :
                            "properties" \notin DOMAIN r} :
            pageCallFinish(IF cpc = "awaitCreate" THEN "create" ELSE "update",
                           call.databaseName, response)
              = Throw(PartialResponseError(IF cpc = "awaitCreate" THEN "create"
                                           ELSE "update"))

\* The call that raised the partial-response error has ended, and its one
\* transport call is the create or update it was asked for: nothing archives
\* the page and nothing sends the write again.
PartialLeavesOneCall ==
    PartialThrown =>
        /\ cpc = "done"
        /\ rejection = NoResult
        /\ Len(transportLog) = 1
        /\ transportLog[1].method =
              (IF call.method = "createPage" THEN "pages.create" ELSE "pages.update")
        /\ "archived" \notin DOMAIN transportLog[1]

\* C30: when the transport's create or update call resolves with a record
\* that has no property bag, createPage / updatePage raises its
\* partial-response error after that one transport call; the step that raises
\* it and every later step issue no transport call: no rollback, no retry.
C30_PartialResponseRaises ==
    /\ [](PartialRaises /\ PartialLeavesOneCall)
    /\ [][PartialThrown' => transportLog' = transportLog]_vars

\* C30 witness: updatePage on a configured database ended with the
\* partial-response error after its single pages.update call.
C30_Witness ==
    /\ cpc = "done"
    /\ call.method = "updatePage"
    /\ call.databaseName = "tasks"
    /\ outcome = Throw(PartialResponseError("update"))
    /\ Len(transportLog) = 1
    /\ transportLog[1].method = "pages.update"

====
